---- MODULE Spec2Model ----
(***************************************************************************)
(* Verification model of trakt-function-calling-proxy.                     *)
(*                                                                         *)
(* Two state machines share this module:                                   *)
(*   Spec      - the cached client (src/cache/cached-trakt-client.js)      *)
(*               over the two-tier cache manager; the upstream method is   *)
(*               an asynchronous call that returns a value or throws.      *)
(*   TokenSpec - the upstream client (trakt/client.js): OAuth credential,  *)
(*               ensureTokenValid, refreshAccessToken, the 401 retry.      *)
(*                                                                         *)
(* The repository holds several revisions of the cache manager and of the  *)
(* client.  A revision is fixed at start-up (cacheRev, clientRev) and the  *)
(* behaviour of every revision is modelled from its own source.            *)
(*                                                                         *)
(* Scheduling: one cooperative thread.  An action is the code that runs    *)
(* between two suspension points (an outbound HTTP call, a durable cache   *)
(* read or write).  Time is Date.now() in milliseconds.                    *)
(***************************************************************************)
EXTENDS Integers, FiniteSets, Sequences, TLC

(***************************************************************************)
(* Bounds of the model                                                     *)
(***************************************************************************)
\* concurrent wrapped calls (each slot carries one call)
NumSlots == 2
\* the clock stops after this many ticks
MaxTicks == 1
\* one tick of the clock: five minutes, in milliseconds
TickMs == 5 * 60 * 1000

Slots == 1..NumSlots
StartTime == TickMs
MaxNow == StartTime + MaxTicks * TickMs

\* JavaScript's undefined / null, for numbers and for cached payloads
Undefined == 0 - 1
Null == "null"
\* payloads an upstream method can return
Payloads == {"a", "b"}

\* JavaScript truthiness of a number-or-undefined (0 and undefined are falsy)
Truthy(x) == x # Undefined /\ x # 0

(***************************************************************************)
(* Cache manager                                                           *)
(***************************************************************************)
\* revisions of cache-manager.js: "sync" keeps the second tier in NodeCache
\* and answers synchronously; "async" keeps it in node-persist and get/set
\* are async functions
CacheRevs == {"sync", "async"}

Methods == {"getHistory", "getTrending", "getStats"}
\* parameter bags of a call (forceRefresh already stripped)
ParamBags == {"none", "movies"}
Requests == {<<"getTrending", "movies">>, <<"getStats", "none">>}

\* #createCachedMethod: the first CACHE_TYPES value contained in the
\* lower-cased method name, else the method name itself
CacheTypeOf(m) ==
    CASE m = "getHistory" -> "history"
      [] m = "getTrending" -> "trending"
      [] OTHER -> m

\* DEFAULT_TTL[cacheType] in seconds, Undefined when the table has no entry
DEFAULT_TTL(rev, type) ==
    IF rev = "sync"
    THEN CASE type = "history" -> 60 * 5
           [] type = "trending" -> 60 * 30
           [] OTHER -> Undefined
    ELSE CASE type = "history" -> 60 * 5
           [] type = "trending" -> 60 * 60
           [] OTHER -> Undefined

\* the fallback of `ttl || DEFAULT_TTL[cacheType] || 300`
FallbackTtl == 300

(***************************************************************************)
(* Cache keys.  A parameter bag is the sequence of its [name, value]       *)
(* entries in insertion order (Object.entries); a string built by          *)
(* concatenation is the sequence of its pieces.                            *)
(***************************************************************************)
\* entries one bag may hold
MaxEntries == 2

ParamNames == {"page", "type", "limit"}
\* String.prototype.localeCompare on the parameter names
NameRank(n) ==
    CASE n = "limit" -> 1 [] n = "page" -> 2 [] n = "pagination" -> 3
      [] n = "query" -> 4 [] n = "type" -> 5

UndefinedValue == "undefined"
ParamValues == {Null, UndefinedValue, "movies"}

\* the bag of a wrapped call's parameters
BagOf(p) == IF p = "movies" THEN << <<"type", "movies">> >> ELSE << >>

\* .filter(([_, value]) => value !== undefined && value !== null)
IsSet(entry) == entry[2] # UndefinedValue /\ entry[2] # Null
FilterSet(bag) == SelectSeq(bag, IsSet)

\* mutant: the entries are not sorted
InsertSorted_Append(entry, sorted) == Append(sorted, entry)

\* one step of .sort(([keyA], [keyB]) => keyA.localeCompare(keyB)): the
\* entry goes before the first entry whose name compares greater
RECURSIVE InsertSorted(_, _)
InsertSorted(entry, sorted) ==
    IF sorted = << >> THEN <<entry>>
    ELSE IF NameRank(entry[1]) < NameRank(Head(sorted)[1])
         THEN <<entry>> \o sorted
         ELSE <<Head(sorted)>> \o InsertSorted(entry, Tail(sorted))

RECURSIVE SortEntries(_)
SortEntries(bag) ==
    IF bag = << >> THEN << >>
    ELSE InsertSorted(bag[Len(bag)], SortEntries(SubSeq(bag, 1, Len(bag) - 1)))

\* the entries as `name=value` joined by '&'
sortedParams(bag) == SortEntries(FilterSet(bag))

\* createKey(cacheType, params) of the object-parameter revisions:
\* sortedParams ? `${cacheType}?${sortedParams}` : cacheType
createKey(type, params) ==
    IF sortedParams(params) = << >> THEN <<type>>
    ELSE <<type, "?", sortedParams(params)>>

\* createKey(cacheType, params = []) of the list-parameter revision, for a
\* list of object parameters: every one adds `?${sortedParams}`
RECURSIVE createKeyOfList(_, _)
createKeyOfList(type, params) ==
    IF params = << >> THEN <<type>>
    ELSE createKeyOfList(type, SubSeq(params, 1, Len(params) - 1))
         \o <<"?", sortedParams(params[Len(params)])>>

Keys == {createKey(CacheTypeOf(r[1]), BagOf(r[2])) : r \in Requests}

NoItem == [present |-> FALSE, value |-> Null, expiresAt |-> Undefined]
Item(v, e) == [present |-> TRUE, value |-> v, expiresAt |-> e]

\* memoryItem && (!memoryItem.expiresAt || Date.now() < memoryItem.expiresAt)
MemoryValid(item, t) ==
    item.present /\ (~Truthy(item.expiresAt) \/ t < item.expiresAt)

\* the second tier's own expiry: an entry past its ttl reads as absent
DiskValid(item, t) ==
    item.present /\ (~Truthy(item.expiresAt) \/ t < item.expiresAt)

\* expiresAt = ttl ? Date.now() + ttl * 1000 : undefined
ExpiresAt(ttl, t) == IF Truthy(ttl) THEN t + ttl * 1000 ELSE Undefined

(***************************************************************************)
(* State                                                                   *)
(***************************************************************************)
VARIABLES
    now,            \* Date.now(), milliseconds
    cacheRev,       \* revision of the cache manager in use
    memoryCache,    \* CacheManager.#memoryCache: key -> {value, expiresAt}
    diskCache,      \* the second tier (NodeCache / node-persist)
    pendingWrites,  \* storage.setItem calls that have not completed yet
    forceRefresh,   \* CachedTraktClient.#forceRefresh of the wrapped target
    primed,         \* history: forceRefreshNextCall() was called since the
                    \* last wrapped call began
    calls,          \* the wrapped calls in progress, one per slot
    last            \* history: the wrapped call that completed most recently

VARIABLES
    clientRev,          \* revision of trakt/client.js in use
    accessToken,        \* TraktClient.#accessToken (NoToken: null)
    refreshToken,       \* TraktClient.#refreshToken
    tokenExpiresAt,     \* TraktClient.#tokenExpiresAt (Undefined: null)
    configRefreshToken, \* config.REFRESH_TOKEN
    envRefreshToken,    \* REFRESH_TOKEN as written to the .env file
    providerGen,        \* provider: generation of the token pair in force
    reqs,               \* upstream requests in progress
    lastIssued,         \* history: refresh token of the latest successful refresh
    lastRefresh         \* history: how the latest refreshAccessToken ended

VARIABLES
    keyCall,            \* a pair of createKey calls: arguments and results
    ttlCall             \* a computation of set()'s actual TTL

funcVars == <<keyCall, ttlCall>>

VARIABLES
    mgrRev,             \* revision of CacheManager.get in use
    memItem,                \* #memoryCache entry of the key
    diskItem,               \* node-persist datum of the key
    tasks,              \* get / set / delete calls in progress
    setSeq,             \* history: number of set calls so far
    written,            \* history: what the latest set or delete call asked for
    restored,           \* history: the latest copy from the durable tier to memory
    clobbered           \* history: such a copy replaced a newer memory entry

mgrVars == <<mgrRev, memItem, diskItem, tasks, setSeq, written, restored, clobbered>>

VARIABLES
    pageRev,            \* revision of #makePaginatedRequest in use
    collection,         \* the upstream collection: page count and item count
    pcall,              \* the paginated call made through the cached client
    preq                \* the request of each page

pageVars == <<pageRev, collection, pcall, preq>>

VARIABLES
    indexBuilt,         \* IndexedCacheService: #ratings, #watched, #favorites are set
    sourceCached,       \* cache keys that hold an unexpired entry
    indexCall           \* the call of ratings() / watched() / favorites()

indexVars == <<indexBuilt, sourceCached, indexCall>>

VARIABLES
    itemCall            \* the function applied to a record, its inputs and result

itemVars == <<itemCall>>

VARIABLES
    ratingsCall         \* a ratings request, its parameters and its answer

ratingsVars == <<ratingsCall>>

VARIABLES
    flushMemory,        \* flushType: the memory item of each key
    flushDisk,          \* the keys the storage holds
    flushWriting,       \* the keys whose storage.setItem is in flight
    flush               \* the flushType call

flushVars == <<flushMemory, flushDisk, flushWriting, flush>>

VARIABLES
    indexMap,           \* enrichment passes: the Map in #ratings, #watched, #favorites
    watchedFilled,      \* the watched fetches whose items a pass's Map holds
    passes              \* the enrichment pass of each request

buildVars == <<indexMap, watchedFilled, passes>>

VARIABLES
    tierCall            \* failing durable tier: the cached request under way

durableVars == <<tierCall>>

VARIABLES
    urlCall             \* #buildUrl: the call under way

urlVars == <<urlCall>>

VARIABLES
    serverRev,          \* middleware chain: the revision of server.js
    apiKeyConfig,       \* config.API_KEY
    inbound             \* the inbound requests

authVars == <<serverRev, apiKeyConfig, inbound>>

VARIABLES
    entryOf,            \* refreshed sources: the upstream result in each cache entry
    fetched,            \* the number of upstream results fetched
    indexFrom,          \* the results each index was built from
    freshCall           \* the index call under way

freshVars == <<entryOf, fetched, indexFrom, freshCall>>

VARIABLES
    serviceRev,         \* cached responses: the revision of the service layer
    upstreamItems,      \* the number of items the upstream holds
    held,               \* the response object held in the memory tier, per key
    served              \* the response of the last service request

aliasVars == <<serviceRev, upstreamItems, held, served>>

VARIABLES
    nextCallForced,     \* priming: #forceRefresh as the service requests see it
    freqs               \* the service requests

forceVars == <<nextCallForced, freqs>>

VARIABLES
    textCall            \* a pair of createKey calls: arguments and key strings

textVars == <<textCall>>

\* the state outside the cached client and the upstream client
extVars == <<funcVars, mgrVars, pageVars, indexVars, itemVars, ratingsVars, flushVars, buildVars, durableVars, urlVars, authVars, freshVars, aliasVars, forceVars, textVars>>

\* for each part of that state, the rest of it
funcOthers == <<mgrVars, pageVars, indexVars, itemVars, ratingsVars, flushVars, buildVars, durableVars, urlVars, authVars, freshVars, aliasVars, forceVars, textVars>>
mgrOthers == <<funcVars, pageVars, indexVars, itemVars, ratingsVars, flushVars, buildVars, durableVars, urlVars, authVars, freshVars, aliasVars, forceVars, textVars>>
pageOthers == <<funcVars, mgrVars, indexVars, itemVars, ratingsVars, flushVars, buildVars, durableVars, urlVars, authVars, freshVars, aliasVars, forceVars, textVars>>
indexOthers == <<funcVars, mgrVars, pageVars, itemVars, ratingsVars, flushVars, buildVars, durableVars, urlVars, authVars, freshVars, aliasVars, forceVars, textVars>>
itemOthers == <<funcVars, mgrVars, pageVars, indexVars, ratingsVars, flushVars, buildVars, durableVars, urlVars, authVars, freshVars, aliasVars, forceVars, textVars>>
ratingsOthers == <<funcVars, mgrVars, pageVars, indexVars, itemVars, flushVars, buildVars, durableVars, urlVars, authVars, freshVars, aliasVars, forceVars, textVars>>
flushOthers == <<funcVars, mgrVars, pageVars, indexVars, itemVars, ratingsVars, buildVars, durableVars, urlVars, authVars, freshVars, aliasVars, forceVars, textVars>>
buildOthers == <<funcVars, mgrVars, pageVars, indexVars, itemVars, ratingsVars, flushVars, durableVars, urlVars, authVars, freshVars, aliasVars, forceVars, textVars>>
durableOthers == <<funcVars, mgrVars, pageVars, indexVars, itemVars, ratingsVars, flushVars, buildVars, urlVars, authVars, freshVars, aliasVars, forceVars, textVars>>
urlOthers == <<funcVars, mgrVars, pageVars, indexVars, itemVars, ratingsVars, flushVars, buildVars, durableVars, authVars, freshVars, aliasVars, forceVars, textVars>>
authOthers == <<funcVars, mgrVars, pageVars, indexVars, itemVars, ratingsVars, flushVars, buildVars, durableVars, urlVars, freshVars, aliasVars, forceVars, textVars>>
freshOthers == <<funcVars, mgrVars, pageVars, indexVars, itemVars, ratingsVars, flushVars, buildVars, durableVars, urlVars, authVars, aliasVars, forceVars, textVars>>
aliasOthers == <<funcVars, mgrVars, pageVars, indexVars, itemVars, ratingsVars, flushVars, buildVars, durableVars, urlVars, authVars, freshVars, forceVars, textVars>>
forceOthers == <<funcVars, mgrVars, pageVars, indexVars, itemVars, ratingsVars, flushVars, buildVars, durableVars, urlVars, authVars, freshVars, aliasVars, textVars>>
textOthers == <<funcVars, mgrVars, pageVars, indexVars, itemVars, ratingsVars, flushVars, buildVars, durableVars, urlVars, authVars, freshVars, aliasVars, forceVars>>

tokenVars == <<clientRev, accessToken, refreshToken, tokenExpiresAt,
               configRefreshToken, envRefreshToken, providerGen, reqs,
               lastIssued, lastRefresh>>

cacheVars == <<cacheRev, memoryCache, diskCache, pendingWrites, forceRefresh,
               primed, calls, last>>

IdleCall ==
    [pc |-> "idle", method |-> "getStats", params |-> "none",
     force |-> FALSE, local |-> FALSE, primedBefore |-> FALSE,
     phase |-> "none",
     readDone |-> FALSE, readHit |-> FALSE, readValue |-> Null,
     upstream |-> 0, upParams |-> "none", fetched |-> Null, threw |-> FALSE,
     storedValue |-> Null, storedTtlMs |-> Undefined,
     staleDone |-> FALSE, staleHit |-> FALSE, staleValue |-> Null,
     outcome |-> "none", result |-> Null]

KeyOf(c) == createKey(CacheTypeOf(c.method), BagOf(c.params))

\* ttl || DEFAULT_TTL[cacheType] || 300   (no per-call ttl is ever passed)
EffectiveTtl(rev, type) ==
    IF Truthy(DEFAULT_TTL(rev, type)) THEN DEFAULT_TTL(rev, type)
    ELSE FallbackTtl

\* `if (cachedData)` / `if (staleData)`: what get() hands back is tested for
\* truthiness.  The async revision's get() hands back a Promise, an object.
IsTruthyData(rev, v) == rev = "async" \/ v # Null

\* this.#memoryCache.set(key, { value, expiresAt })
MemorySet(mem, key, v, ttl, t) == [mem EXCEPT ![key] = Item(v, ExpiresAt(ttl, t))]

\* CacheManager.get of the sync revision: memory, then NodeCache; a second
\* tier hit is copied to memory by set(key, diskItem, {memoryOnly: true})
CacheManagerGetSync(key) ==
    IF MemoryValid(memoryCache[key], now)
    THEN [value |-> memoryCache[key].value, memory |-> memoryCache]
    ELSE IF DiskValid(diskCache[key], now)
    THEN [value |-> diskCache[key].value,
          memory |-> MemorySet(memoryCache, key, diskCache[key].value, Undefined, now)]
    ELSE [value |-> Null, memory |-> memoryCache]

\* what the caches hold for a key, tier by tier (used to state the claims)
Lookup(key) ==
    IF MemoryValid(memoryCache[key], now) THEN memoryCache[key].value
    ELSE IF DiskValid(diskCache[key], now) THEN diskCache[key].value
    ELSE Null

(***************************************************************************)
(* Cached client: src/cache/cached-trakt-client.js                         *)
(***************************************************************************)
\* the object the module exports is the Proxy the constructor returns; the
\* private field #forceRefresh lives on the wrapped target only
Exported == "proxy"
HasPrivateFields(obj) == obj = "target"

Returned(c, v) == [c EXCEPT !.pc = "done", !.outcome = "value", !.result = v]
Thrown(c) == [c EXCEPT !.pc = "done", !.outcome = "error"]

\* const freshData = await fetchFunction(params)
Fetching(c) ==
    [c EXCEPT !.pc = "fetching", !.upstream = c.upstream + 1,
              !.upParams = c.params]

\* in flight: the call goes on; completed: the caller has its answer
Proceed(s, c) ==
    IF c.pc = "done"
    THEN /\ last' = c
         /\ calls' = [calls EXCEPT ![s] = [IdleCall EXCEPT !.pc = "returned"]]
    ELSE /\ calls' = [calls EXCEPT ![s] = c]
         /\ UNCHANGED last

\* mutant: the cache read is ignored and the live fetch always runs
HitOrFetch_NeverHit(c, v) == Fetching(c)

\* `if (cachedData) return cachedData`, else go on to the live fetch
HitOrFetch(c, v) ==
    IF IsTruthyData(cacheRev, v) THEN Returned(c, v) ELSE Fetching(c)

\* lines 89-95 of #cachedRequest, sync revision: get() answers at once
CachedReadSync(s, c) ==
    LET key == KeyOf(c)
        g == CacheManagerGetSync(key)
        c1 == [c EXCEPT !.readDone = TRUE, !.readHit = Lookup(key) # Null,
                        !.readValue = Lookup(key)]
    IN  /\ memoryCache' = g.memory
        /\ Proceed(s, HitOrFetch(c1, g.value))

\* lines 89-95 of #cachedRequest, async revision: get() runs to its first
\* await and hands back a Promise, which is truthy, so it is returned; the
\* caller receives whatever get() resolves to
CachedReadAsync(s, c) ==
    LET key == KeyOf(c) IN
    /\ UNCHANGED memoryCache
    /\ IF MemoryValid(memoryCache[key], now)
       THEN Proceed(s, HitOrFetch([c EXCEPT !.readDone = TRUE, !.readHit = TRUE,
                                            !.readValue = memoryCache[key].value],
                                  memoryCache[key].value))
       ELSE Proceed(s, [c EXCEPT !.pc = "diskread", !.phase = "read"])

\* #cachedRequest up to its first suspension point
cachedRequest(s, c) ==
    IF ~c.force
    THEN IF cacheRev = "sync" THEN CachedReadSync(s, c) ELSE CachedReadAsync(s, c)
    ELSE /\ Proceed(s, Fetching(c))
         /\ UNCHANGED memoryCache

\* const forceRefresh = this.#forceRefresh || localForceRefresh
EffectiveForce(flag, localForceRefresh) == flag \/ localForceRefresh

\* the function #createCachedMethod returns, called with params
WrappedCall(s, req, localForceRefresh) ==
    /\ calls[s].pc = "idle"
    /\ \A r \in Slots : r < s => calls[r].pc # "idle"
    /\ LET c == [IdleCall EXCEPT !.method = req[1], !.params = req[2],
                     !.force = EffectiveForce(forceRefresh, localForceRefresh),
                     !.local = localForceRefresh,
                     !.primedBefore = primed]
       IN  cachedRequest(s, c)
    /\ forceRefresh' = FALSE
    /\ primed' = FALSE
    /\ UNCHANGED <<now, cacheRev, diskCache, pendingWrites>>
    /\ UNCHANGED <<tokenVars, extVars>>

\* forceRefreshNextCall() on the exported client: `this` is the Proxy, which
\* has no #forceRefresh, so the assignment throws a TypeError
forceRefreshNextCall ==
    /\ ~primed
    /\ forceRefresh' = IF HasPrivateFields(Exported) THEN TRUE ELSE forceRefresh
    /\ primed' = TRUE
    /\ UNCHANGED <<now, cacheRev, memoryCache, diskCache, pendingWrites, calls, last>>
    /\ UNCHANGED <<tokenVars, extVars>>

\* await storage.getItem(key) of the async get() completes; a hit is copied
\* to memory by set(key, diskItem, {memoryOnly: true}) and returned
DiskReadCompletes(s) ==
    LET c == calls[s]
        key == KeyOf(c)
        hit == DiskValid(diskCache[key], now)
        v == IF hit THEN diskCache[key].value ELSE Null
        c1 == IF c.phase = "read"
              THEN [c EXCEPT !.readDone = TRUE, !.readHit = hit, !.readValue = v]
              ELSE [c EXCEPT !.staleDone = TRUE, !.staleHit = hit, !.staleValue = v]
    IN  /\ c.pc = "diskread"
        /\ memoryCache' = IF hit THEN MemorySet(memoryCache, key, v, Undefined, now)
                          ELSE memoryCache
        /\ Proceed(s, Returned(c1, v))
        /\ UNCHANGED <<now, cacheRev, diskCache, pendingWrites, forceRefresh, primed>>
    /\ UNCHANGED <<tokenVars, extVars>>

\* the upstream method resolves: cacheManager.set(cacheKey, freshData, {ttl})
\* (not awaited), then return freshData
UpstreamReturns(s, v) ==
    LET c == calls[s]
        key == KeyOf(c)
        ttl == EffectiveTtl(cacheRev, CacheTypeOf(c.method))
        mem == MemorySet(memoryCache, key, v, ttl, now)
        c1 == [c EXCEPT !.fetched = v, !.storedValue = mem[key].value,
                        !.storedTtlMs = mem[key].expiresAt - now]
    IN  /\ c.pc = "fetching"
        /\ memoryCache' = mem
        /\ IF cacheRev = "sync"
           THEN /\ diskCache' = [diskCache EXCEPT ![key] = Item(v, ExpiresAt(ttl, now))]
                /\ UNCHANGED pendingWrites
           ELSE /\ pendingWrites' = pendingWrites \cup
                        {[key |-> key, value |-> v, expiresAt |-> ExpiresAt(ttl, now)]}
                /\ UNCHANGED diskCache
        /\ Proceed(s, Returned(c1, v))
        /\ UNCHANGED <<now, cacheRev, forceRefresh, primed>>
    /\ UNCHANGED <<tokenVars, extVars>>

\* mutant: the catch block rethrows without looking for stale data
StaleOrThrow_AlwaysThrow(c, v) == Thrown(c)

\* the catch block of #cachedRequest, once the stale read has answered:
\* `if (staleData) return staleData`, else `throw error`
StaleOrThrow(c, v) ==
    IF IsTruthyData(cacheRev, v) THEN Returned(c, v) ELSE Thrown(c)

\* the upstream method throws: the catch block of #cachedRequest
UpstreamThrows(s) ==
    LET c == [calls[s] EXCEPT !.threw = TRUE]
        key == KeyOf(c)
    IN  /\ calls[s].pc = "fetching"
        /\ IF ~c.force
           THEN /\ Proceed(s, Thrown([c EXCEPT !.staleHit = Lookup(key) # Null]))
                /\ UNCHANGED memoryCache
           ELSE IF cacheRev = "sync"
           THEN LET g == CacheManagerGetSync(key)
                    c1 == [c EXCEPT !.staleDone = TRUE,
                                    !.staleHit = Lookup(key) # Null,
                                    !.staleValue = Lookup(key)]
                IN  /\ memoryCache' = g.memory
                    /\ Proceed(s, StaleOrThrow(c1, g.value))
           ELSE /\ UNCHANGED memoryCache
                /\ IF MemoryValid(memoryCache[key], now)
                   THEN Proceed(s, StaleOrThrow(
                            [c EXCEPT !.staleDone = TRUE, !.staleHit = TRUE,
                                      !.staleValue = memoryCache[key].value],
                            memoryCache[key].value))
                   ELSE Proceed(s, [c EXCEPT !.pc = "diskread", !.phase = "stale"])
        /\ UNCHANGED <<now, cacheRev, diskCache, pendingWrites, forceRefresh, primed>>
    /\ UNCHANGED <<tokenVars, extVars>>

\* a storage.setItem started by the async set() completes
DiskWriteCompletes(w) ==
    /\ w \in pendingWrites
    /\ diskCache' = [diskCache EXCEPT ![w.key] = Item(w.value, w.expiresAt)]
    /\ pendingWrites' = pendingWrites \ {w}
    /\ UNCHANGED <<now, cacheRev, memoryCache, forceRefresh, primed, calls, last>>
    /\ UNCHANGED <<tokenVars, extVars>>

\* #cleanupMemoryCache, run by setInterval
cleanupMemoryCache ==
    /\ \E k \in Keys : memoryCache[k].present /\ Truthy(memoryCache[k].expiresAt)
                       /\ now >= memoryCache[k].expiresAt
    /\ memoryCache' = [k \in Keys |->
          IF memoryCache[k].present /\ Truthy(memoryCache[k].expiresAt)
             /\ now >= memoryCache[k].expiresAt
          THEN NoItem ELSE memoryCache[k]]
    /\ UNCHANGED <<now, cacheRev, diskCache, pendingWrites, forceRefresh, primed, calls, last>>
    /\ UNCHANGED <<tokenVars, extVars>>

(***************************************************************************)
(* The upstream client (trakt/client.js): credential and requests          *)
(***************************************************************************)
\* the revisions of the client: without paginated requests and without
\* persistence of the refresh token ("legacy"), with a first page fetched
\* outside #makeRequest ("rawpage"), with every page through #makeRequest
\* ("final")
ClientRevs == {"legacy", "rawpage", "final"}

\* concurrent upstream calls
NumReqs == 2
\* token pairs the provider issues
MaxGen == 3
\* requests one call may send before the model stops following it
MaxAttempts == 3

ReqIds == 1..NumReqs

\* a token pair is named by its generation; `null` is no generation
NoToken == 0
FirstGen == 1

\* expires_in of the provider's answer, in seconds
ExpiresInChoices == {TickMs \div 1000}

\* HTTP statuses of the upstream API
Statuses == {200, 401, 500}

\* how a token refresh can end: the provider refuses or cannot be reached,
\* the answer is applied but saveConfig() throws, everything succeeds
RefreshOutcomes == {"rejected", "saveFails", "ok"}

\* "request": a call through #makeRequest; "firstPage": the initial request
\* of #makePaginatedRequest
Kinds == {"request", "firstPage"}

IdleReq == [pc |-> "idle", kind |-> "request", retry |-> TRUE, after |-> "none",
            attempts |-> 0, retryRefreshes |-> 0,
            ensured |-> FALSE, sentToken |-> NoToken, sentFresh |-> FALSE,
            sentRefresh |-> NoToken, expectRefresh |-> NoToken]

NoRefresh == [status |-> "none", mutated |-> FALSE, postOk |-> TRUE]

\* the condition under which #ensureTokenValid refreshes
NeedsRefresh(rev, tok, exp, t) ==
    IF rev = "legacy"
    THEN Truthy(exp) /\ t >= exp
    ELSE ~(tok # NoToken /\ Truthy(exp) /\ t < exp)

\* the first page of #makePaginatedRequest is fetched outside #makeRequest
RawFirstPage(rev, q) == rev = "rawpage" /\ q.kind = "firstPage"

\* fetch(url, {headers: {'Authorization': `Bearer ${this.#accessToken}`}})
SendFetch(q, tok, exp, t, ens) ==
    [q EXCEPT !.pc = "fetching", !.attempts = @ + 1, !.ensured = ens,
              !.sentToken = tok,
              !.sentFresh = (tok # NoToken /\ Truthy(exp) /\ t < exp)]

\* #refreshAccessToken up to its `await fetch(.../oauth/token)`
SendRefresh(q, why, rt, issued) ==
    [q EXCEPT !.pc = "refreshing", !.after = why, !.sentRefresh = rt,
              !.expectRefresh = IF issued = NoToken THEN rt ELSE issued]

\* #makeRequest up to its first await that leaves the process
makeRequest(rev, q, tok, exp, rt, issued, t) ==
    IF NeedsRefresh(rev, tok, exp, t)
    THEN SendRefresh(q, "ensure", rt, issued)
    ELSE SendFetch(q, tok, exp, t, TRUE)

\* the `if (response.status === 401 ...)` branch that refreshes and retries
RetryOn401(rev, q) ==
    IF RawFirstPage(rev, q) THEN TRUE ELSE q.retry

\* a public method of the client starts an upstream call
StartRequest(r, kind) ==
    /\ reqs[r].pc = "idle"
    /\ \A o \in ReqIds : o < r => reqs[o].pc # "idle"
    /\ kind = "firstPage" => clientRev # "legacy"
    /\ LET q == [IdleReq EXCEPT !.kind = kind] IN
       reqs' = [reqs EXCEPT ![r] =
                  IF RawFirstPage(clientRev, q)
                  THEN SendFetch(q, accessToken, tokenExpiresAt, now, FALSE)
                  ELSE makeRequest(clientRev, q, accessToken, tokenExpiresAt,
                                   refreshToken, lastIssued, now)]
    /\ UNCHANGED <<now, cacheVars, extVars, clientRev, accessToken, refreshToken,
                   tokenExpiresAt, configRefreshToken, envRefreshToken,
                   providerGen, lastIssued, lastRefresh>>

\* the upstream API answers a resource request
FetchResponds(r, status) ==
    /\ reqs[r].pc = "fetching"
    /\ status = 200 => reqs[r].sentToken # NoToken
    /\ LET q == reqs[r] IN
       /\ (status = 401 /\ RetryOn401(clientRev, q)) => q.attempts < MaxAttempts
       /\ reqs' = [reqs EXCEPT ![r] =
              IF status = 401 /\ RetryOn401(clientRev, q)
              THEN SendRefresh([q EXCEPT !.retry = FALSE,
                                         !.retryRefreshes = @ + 1],
                               "retry", refreshToken, lastIssued)
              ELSE IF status = 200 THEN [q EXCEPT !.pc = "ok"]
              ELSE [q EXCEPT !.pc = "failed"]]
    /\ UNCHANGED <<now, cacheVars, extVars, clientRev, accessToken, refreshToken,
                   tokenExpiresAt, configRefreshToken, envRefreshToken,
                   providerGen, lastIssued, lastRefresh>>

\* the provider answers a refresh and #refreshAccessToken runs to its end;
\* on success the caller goes on to its request
RefreshCompletes(r, outcome, expiresIn) ==
    /\ reqs[r].pc = "refreshing"
    /\ outcome = "saveFails" => clientRev # "legacy"
    /\ outcome # "rejected" =>
          (reqs[r].sentRefresh = providerGen /\ providerGen < MaxGen)
    /\ LET q       == reqs[r]
           applied == outcome # "rejected"
           saved   == clientRev # "legacy"
           gen     == providerGen + 1
           exp     == now + expiresIn * 1000
       IN
       /\ providerGen' = IF applied THEN gen ELSE providerGen
       /\ accessToken' = IF applied THEN gen ELSE accessToken
       /\ refreshToken' = IF applied THEN gen ELSE refreshToken
       /\ tokenExpiresAt' = IF applied THEN exp ELSE tokenExpiresAt
       /\ configRefreshToken' = IF applied /\ saved THEN gen ELSE configRefreshToken
       /\ envRefreshToken' = IF outcome = "ok" /\ saved THEN gen ELSE envRefreshToken
       /\ lastIssued' = IF outcome = "ok" THEN gen ELSE lastIssued
       /\ lastRefresh' =
            [status  |-> IF outcome = "ok" THEN "ok" ELSE "failed",
             mutated |-> <<accessToken', refreshToken', tokenExpiresAt',
                           configRefreshToken', envRefreshToken'>>
                         # <<accessToken, refreshToken, tokenExpiresAt,
                             configRefreshToken, envRefreshToken>>,
             postOk  |-> /\ accessToken' = gen
                         /\ refreshToken' = gen
                         /\ tokenExpiresAt' = exp
                         /\ envRefreshToken' = refreshToken']
       /\ reqs' = [reqs EXCEPT ![r] =
              IF outcome # "ok" THEN [q EXCEPT !.pc = "failed"]
              ELSE IF q.after = "ensure" THEN SendFetch(q, gen, exp, now, TRUE)
              ELSE IF RawFirstPage(clientRev, q) THEN SendFetch(q, gen, exp, now, FALSE)
              ELSE makeRequest(clientRev, q, gen, exp, gen, gen, now)]
    /\ UNCHANGED <<now, cacheVars, extVars, clientRev>>

(***************************************************************************)
(* Pure functions of the cache manager, applied to drawn arguments         *)
(***************************************************************************)
\* Math.random() is drawn as draw / Grain, draw in 0 .. Grain - 1
Grain == 10
\* nominal TTLs drawn, in seconds
MaxTtl == 8

Entries == ParamNames \X ParamValues

\* an object has every property name once
DistinctNames(bag) ==
    \A i, j \in DOMAIN bag : bag[i][1] = bag[j][1] => i = j

Bags ==
    {bag \in UNION {[1..n -> Entries] : n \in 0..MaxEntries} : DistinctNames(bag)}

\* Math.round(num / den) for num >= 0, den > 0
MathRound(num, den) == (2 * num + den) \div (2 * den)

\* set(): useFuzzyTtl && ttl
\*          ? Math.round(ttl * (1 + (Math.random() * 0.2 - 0.1))) : ttl
ActualTtl(ttl, useFuzzyTtl, draw) ==
    IF useFuzzyTtl /\ Truthy(ttl)
    THEN MathRound(ttl * (9 * Grain + 2 * draw), 10 * Grain)
    ELSE ttl

NoKeyCall == [bagA |-> << >>, bagB |-> << >>, done |-> FALSE,
              keyA |-> << >>, keyB |-> << >>, listA |-> << >>, listB |-> << >>]
KeyCalls == {[NoKeyCall EXCEPT !.bagA = a, !.bagB = b] : a, b \in Bags}

NoTtlCall == [ttl |-> Undefined, fuzzy |-> FALSE, draw |-> 0,
              done |-> FALSE, actualTtl |-> Undefined]
TtlCalls ==
    {[NoTtlCall EXCEPT !.ttl = t, !.fuzzy = f, !.draw = d] :
        t \in 1..MaxTtl, f \in BOOLEAN, d \in 0..(Grain - 1)}

FuncIdle == keyCall = NoKeyCall /\ ttlCall = NoTtlCall

\* createKey is called for both bags, in both revisions
ApplyCreateKey ==
    /\ keyCall # NoKeyCall
    /\ ~keyCall.done
    /\ keyCall' = [keyCall EXCEPT
          !.done = TRUE,
          !.keyA = createKey("history", keyCall.bagA),
          !.keyB = createKey("history", keyCall.bagB),
          !.listA = createKeyOfList("history", <<keyCall.bagA>>),
          !.listB = createKeyOfList("history", <<keyCall.bagB>>)]
    /\ UNCHANGED <<now, cacheVars, tokenVars, funcOthers, ttlCall>>

\* set() computes the TTL it stores the entry with
ApplyActualTtl ==
    /\ ttlCall # NoTtlCall
    /\ ~ttlCall.done
    /\ ttlCall' = [ttlCall EXCEPT
          !.done = TRUE,
          !.actualTtl = ActualTtl(ttlCall.ttl, ttlCall.fuzzy, ttlCall.draw)]
    /\ UNCHANGED <<now, cacheVars, tokenVars, funcOthers, keyCall>>

(***************************************************************************)
(* CacheManager.get / set / delete on one key, with their suspension       *)
(* points at the node-persist calls                                        *)
(***************************************************************************)
\* "plain": get copies a durable hit to memory without a TTL
\* (cache/cache-manager.js); "carry": get copies it with the remaining TTL
\* of the datum (the revision with storage.getDatum)
MgrRevs == {"plain", "carry"}

\* concurrent calls of the cache manager
NumTasks == 2
\* steps of the clock
MaxSteps == 3
\* milliseconds in one step of the clock
StepMs == 400

TaskIds == 1..NumTasks

\* ttl options of set, in seconds (Undefined: null, the default)
TtlChoices == {Undefined, 1, 2}

\* storage.init({ttl: DEFAULT_TTL.DEFAULT * 1_000}): the TTL node-persist
\* gives a datum written without one
DefaultDiskTtlMs == 60 * 60 * 1000

NoEntry == [present |-> FALSE, value |-> Null, expiresAt |-> Undefined, ver |-> 0]
Entry(v, e, n) == [present |-> TRUE, value |-> v, expiresAt |-> e, ver |-> n]

IdleTask == [pc |-> "idle", op |-> "none", value |-> Null,
             expiresAt |-> Undefined, ver |-> 0, result |-> Null]
NothingWritten == [live |-> FALSE, value |-> Null, expiresAt |-> Undefined, ver |-> 0]
NothingRestored == [done |-> FALSE, memExpiresAt |-> Undefined, diskExpiresAt |-> Undefined]

MgrIdle ==
    /\ mgrRev = "carry"
    /\ memItem = NoEntry
    /\ diskItem = NoEntry
    /\ tasks = [t \in TaskIds |-> IdleTask]
    /\ setSeq = 0
    /\ written = NothingWritten
    /\ restored = NothingRestored
    /\ clobbered = FALSE

Max(a, b) == IF a >= b THEN a ELSE b

\* storage.getItem: the value of a datum that has not expired
DatumLive(d, t) == d.present /\ t < d.expiresAt

\* a call may start once the calls before it have started
MayStart(t) ==
    /\ tasks[t].pc = "idle"
    /\ \A o \in TaskIds : o < t => tasks[o].pc # "idle"

Finished(t, task, v) ==
    tasks' = [tasks EXCEPT ![t] = [task EXCEPT !.pc = "done", !.result = v]]

\* this.#memoryCache.set(key, { value, expiresAt }) of the memory-only set
RestoredEntry(v, e, n) == Entry(v, e, n)

\* get(): `await this.set(key, diskItem, { memoryOnly: true, ttl })`
Restore(v, n, ttl, diskExpiresAt) ==
    LET e == ExpiresAt(ActualTtl(ttl, FALSE, 0), now) IN
    /\ memItem' = RestoredEntry(v, e, n)
    /\ restored' = [done |-> TRUE, memExpiresAt |-> e, diskExpiresAt |-> diskExpiresAt]
    /\ clobbered' = (clobbered \/ (memItem.present /\ memItem.ver > n))

\* get(key) up to `await storage.getItem(key)`
GetStart(t) ==
    /\ MayStart(t)
    /\ IF MemoryValid(memItem, now)
       THEN Finished(t, [IdleTask EXCEPT !.op = "get"], memItem.value)
       ELSE tasks' = [tasks EXCEPT ![t] = [IdleTask EXCEPT !.op = "get", !.pc = "getItem"]]
    /\ UNCHANGED <<now, cacheVars, tokenVars, mgrOthers, mgrRev, memItem, diskItem,
                   setSeq, written, restored, clobbered>>

\* storage.getItem answers; in the "plain" revision get runs to its end
GetItemReturns(t) ==
    /\ tasks[t].pc = "getItem"
    /\ IF ~DatumLive(diskItem, now)
       THEN /\ Finished(t, tasks[t], Null)
            /\ diskItem' = NoEntry
            /\ UNCHANGED <<memItem, restored, clobbered>>
       ELSE IF mgrRev = "plain"
       THEN /\ Restore(diskItem.value, diskItem.ver, Undefined, diskItem.expiresAt)
            /\ Finished(t, tasks[t], diskItem.value)
            /\ UNCHANGED diskItem
       ELSE /\ tasks' = [tasks EXCEPT ![t] =
                  [tasks[t] EXCEPT !.pc = "getDatum", !.value = diskItem.value,
                                   !.ver = diskItem.ver]]
            /\ UNCHANGED <<memItem, diskItem, restored, clobbered>>
    /\ UNCHANGED <<now, cacheVars, tokenVars, mgrOthers, mgrRev, setSeq, written>>

\* storeDatum?.ttl ? Math.max(0, storeDatum.ttl - Date.now()) : undefined
ttlMilliseconds(datum, t) ==
    IF datum.present /\ Truthy(datum.expiresAt)
    THEN Max(0, datum.expiresAt - t)
    ELSE Undefined

\* ttlMilliseconds ? Math.round(ttlMilliseconds / 1_000) : ttlMilliseconds
RestoredTtl(ms) == IF Truthy(ms) THEN MathRound(ms, 1000) ELSE ms

\* storage.getDatum answers and get runs to its end
GetDatumReturns(t) ==
    /\ tasks[t].pc = "getDatum"
    /\ LET ms == ttlMilliseconds(diskItem, now) IN
       IF ms # 0
       THEN Restore(tasks[t].value, tasks[t].ver, RestoredTtl(ms),
                    IF diskItem.present THEN diskItem.expiresAt ELSE Undefined)
       ELSE UNCHANGED <<memItem, restored, clobbered>>
    /\ Finished(t, tasks[t], tasks[t].value)
    /\ UNCHANGED <<now, cacheVars, tokenVars, mgrOthers, mgrRev, diskItem, setSeq, written>>

\* set(key, value, {ttl}) up to `await storage.setItem(...)`
SetStart(t, v, ttl) ==
    /\ MayStart(t)
    /\ LET actualTtl == ActualTtl(ttl, FALSE, 0)
           e == ExpiresAt(actualTtl, now)
           n == setSeq + 1
       IN
       /\ memItem' = Entry(v, e, n)
       /\ setSeq' = n
       /\ written' = [live |-> TRUE, value |-> v, expiresAt |-> e, ver |-> n]
       /\ tasks' = [tasks EXCEPT ![t] =
              [IdleTask EXCEPT !.op = "set", !.pc = "setItem", !.value = v, !.ver = n,
                 !.expiresAt = now + (IF Truthy(actualTtl) THEN actualTtl * 1000
                                      ELSE DefaultDiskTtlMs)]]
    /\ UNCHANGED <<now, cacheVars, tokenVars, mgrOthers, mgrRev, diskItem, restored, clobbered>>

\* storage.setItem has written the datum
SetItemCompletes(t) ==
    /\ tasks[t].pc = "setItem"
    /\ diskItem' = Entry(tasks[t].value, tasks[t].expiresAt, tasks[t].ver)
    /\ Finished(t, tasks[t], Null)
    /\ UNCHANGED <<now, cacheVars, tokenVars, mgrOthers, mgrRev, memItem, setSeq,
                   written, restored, clobbered>>

\* delete(key) up to `await storage.removeItem(key)`
DeleteStart(t) ==
    /\ MayStart(t)
    /\ memItem' = NoEntry
    /\ written' = [written EXCEPT !.live = FALSE]
    /\ tasks' = [tasks EXCEPT ![t] = [IdleTask EXCEPT !.op = "delete", !.pc = "removeItem"]]
    /\ UNCHANGED <<now, cacheVars, tokenVars, mgrOthers, mgrRev, diskItem, setSeq,
                   restored, clobbered>>

\* storage.removeItem has removed the datum
RemoveItemCompletes(t) ==
    /\ tasks[t].pc = "removeItem"
    /\ diskItem' = NoEntry
    /\ Finished(t, tasks[t], Null)
    /\ UNCHANGED <<now, cacheVars, tokenVars, mgrOthers, mgrRev, memItem, setSeq,
                   written, restored, clobbered>>

\* #cleanupMemoryCache on the key
MgrCleanup ==
    /\ memItem.present /\ Truthy(memItem.expiresAt) /\ now >= memItem.expiresAt
    /\ memItem' = NoEntry
    /\ UNCHANGED <<now, cacheVars, tokenVars, mgrOthers, mgrRev, diskItem, tasks, setSeq,
                   written, restored, clobbered>>

\* the clock of the cache manager advances
Elapse ==
    /\ now < StartTime + MaxSteps * StepMs
    /\ now' = now + StepMs
    /\ UNCHANGED <<cacheVars, tokenVars, extVars>>

(***************************************************************************)
(* #makePaginatedRequest: the first page, then pages 2..N concurrently     *)
(***************************************************************************)
\* "rawpage": options {autoPaginate, maxPages}, #makeRequest resolves to the
\* parsed body (trakt/client.js); "final": options {autoPaginate, limit},
\* #makeRequest resolves to {data, response}
PageRevs == {"rawpage", "final"}

\* pages of the upstream collection
MaxPageCount == 3
\* items on a full page (x-pagination-limit)
PageSize == 2

Pages == 1..MaxPageCount
\* item limits of a call (0: null)
Limits == 0..(MaxPageCount * PageSize + 1)
\* maxPages of a call (Undefined: null)
MaxPagesChoices == {Undefined, 1, 2}

Min(a, b) == IF a <= b THEN a ELSE b
\* Math.ceil(a / b) for a >= 0, b > 0
Ceil(a, b) == (a + b - 1) \div b

\* the i-th item of the upstream collection
UpstreamItem(i) == [kind |-> "item", id |-> i]
\* the Response object of page p
ResponseObject(p) == [kind |-> "response", id |-> p]

\* the parsed body of page p
PageData(p) ==
    LET lo == (p - 1) * PageSize + 1
        hi == Min(p * PageSize, collection.itemCount)
    IN [i \in 1..(IF hi >= lo THEN hi - lo + 1 ELSE 0) |->
            UpstreamItem(lo + i - 1)]

\* what #makeRequest resolves to for page p
Resolved(rev, p) ==
    IF rev = "final"
    THEN [isArray |-> FALSE, items |-> PageData(p), page |-> p]
    ELSE [isArray |-> TRUE, items |-> PageData(p), page |-> p]

\* Array.prototype.flat() on the list of resolved values, one level deep
RECURSIVE Flat(_)
Flat(values) ==
    IF values = << >> THEN << >>
    ELSE (IF Head(values).isArray THEN Head(values).items
          ELSE <<ResponseObject(Head(values).page)>>) \o Flat(Tail(values))

\* #sliceData(data, limit)
sliceData(data, limit) ==
    IF Truthy(limit) THEN SubSeq(data, 1, Min(limit, Len(data))) ELSE data

\* mutant: the item limit is ignored when the last page is computed
untilPage_AllPages(rev, pageCount, pageSize, limit, maxPages) == pageCount

\* the last page to fetch
untilPage(rev, pageCount, pageSize, limit, maxPages) ==
    IF rev = "final"
    THEN IF Truthy(limit) THEN Min(pageCount, Ceil(limit, pageSize)) ELSE pageCount
    ELSE IF maxPages = Undefined THEN pageCount ELSE Min(pageCount, maxPages)

\* the error body of the upstream API and the Error built from it:
\* `Trakt API responded [${status} - ${error}] ${error_description}`
ErrorBody(status) ==
    [error |-> IF status = 401 THEN "invalid_grant" ELSE "server_error",
     error_description |-> IF status = 401 THEN "token rejected" ELSE "upstream failed"]
ApiError(status) ==
    [status |-> status, error |-> ErrorBody(status).error,
     description |-> ErrorBody(status).error_description]
NoError == [status |-> 0, error |-> Null, description |-> Null]

\* the pagination object of a returned value, from the headers of the first
\* response; `page` is the variable the loop over the further pages counts in
NoPagination == [itemCount |-> 0, pageCount |-> 0, pageSize |-> 0, page |-> 0]
Pagination(page) ==
    [itemCount |-> collection.itemCount, pageCount |-> collection.pageCount,
     pageSize |-> PageSize, page |-> page]

\* x-pagination-page of the first response
FirstPage == 1

NoPageRequest == [pc |-> "none", issued |-> 0, attempts |-> 0, retry |-> TRUE,
                  non2xx |-> 0, first401 |-> FALSE]
IdlePagedCall == [pc |-> "idle", limit |-> 0, maxPages |-> Undefined,
                  autoPaginate |-> FALSE, untilPage |-> 0,
                  outcome |-> "none", data |-> << >>, error |-> NoError,
                  stored |-> FALSE, pagination |-> NoPagination]

PageIdle ==
    /\ pageRev = "final"
    /\ collection = [pageCount |-> 1, itemCount |-> 1]
    /\ pcall = IdlePagedCall
    /\ preq = [p \in Pages |-> NoPageRequest]

\* this.#makeRequest(url) / fetch(endpoint) for page p
Issue(q) == [q EXCEPT !.pc = "sent", !.issued = @ + 1, !.attempts = @ + 1]

\* the call ends: #cachedRequest stores a value, or rethrows
CallReturns(c, data, page) ==
    [c EXCEPT !.pc = "done", !.outcome = "value", !.data = data, !.stored = TRUE,
              !.pagination = Pagination(page)]
CallThrows(c, err) ==
    IF c.pc = "done" THEN c
    ELSE [c EXCEPT !.pc = "done", !.outcome = "error", !.error = err]

\* allData of the auto-paginated call, cut to the limit
Combined(rev, c) ==
    LET rest == [i \in 1..(c.untilPage - 1) |-> Resolved(rev, i + 1)]
        all  == PageData(1) \o Flat(rest)
    IN IF rev = "final" THEN sliceData(all, c.limit) ELSE all

\* a public method calls #makePaginatedRequest, which requests the first page
StartPaginated(limit, maxPages, autoPaginate) ==
    /\ pcall.pc = "idle"
    /\ pageRev = "final" => maxPages = Undefined
    /\ pageRev = "rawpage" => limit = 0
    /\ pcall' = [IdlePagedCall EXCEPT !.pc = "page1", !.limit = limit,
                    !.maxPages = maxPages, !.autoPaginate = autoPaginate]
    /\ preq' = [preq EXCEPT ![1] = Issue(NoPageRequest)]
    /\ UNCHANGED <<now, cacheVars, tokenVars, pageOthers, pageRev, collection>>

\* the first page is fetched outside #makeRequest and retried on every 401
RawPage(rev, p) == rev = "rawpage" /\ p = 1

\* page p is answered 200
PageRespondsOk(p) ==
    /\ preq[p].pc = "sent"
    /\ IF p = 1
       THEN LET u == untilPage(pageRev, collection.pageCount, PageSize,
                               pcall.limit, pcall.maxPages)
                c == [pcall EXCEPT !.untilPage = u]
            IN IF ~pcall.autoPaginate \/ 1 >= u
               THEN /\ pcall' = CallReturns(c, IF pageRev = "final"
                                               THEN sliceData(PageData(1), c.limit)
                                               ELSE PageData(1), FirstPage)
                    /\ preq' = [preq EXCEPT ![1].pc = "ok"]
               ELSE /\ pcall' = [c EXCEPT !.pc = "pages"]
                    /\ preq' = [q \in Pages |->
                          IF q = 1 THEN [preq[1] EXCEPT !.pc = "ok"]
                          ELSE IF q <= u THEN Issue(preq[q]) ELSE preq[q]]
       ELSE /\ preq' = [preq EXCEPT ![p].pc = "ok"]
            /\ pcall' = IF pcall.pc = "pages"
                           /\ \A q \in 2..pcall.untilPage : preq'[q].pc = "ok"
                        \* for (page = page + 1; page <= untilPage; page++)
                        \* has left page at untilPage + 1
                        THEN CallReturns(pcall, Combined(pageRev, pcall),
                                         pcall.untilPage + 1)
                        ELSE pcall
    /\ UNCHANGED <<now, cacheVars, tokenVars, pageOthers, pageRev, collection>>

\* page p is answered with a non-2xx status; a 401 that is retried runs
\* #refreshAccessToken first, which succeeds or throws
PageRespondsError(p, status, refreshOk) ==
    /\ preq[p].pc = "sent"
    /\ status # 200
    /\ LET q == [preq[p] EXCEPT !.non2xx = @ + 1,
                                !.first401 = (@ \/ (status = 401 /\ preq[p].non2xx = 0))]
           retried == status = 401 /\ (RawPage(pageRev, p) \/ q.retry)
       IN
       /\ retried => q.attempts < MaxAttempts
       /\ IF retried /\ refreshOk
          THEN /\ preq' = [preq EXCEPT ![p] =
                     [q EXCEPT !.attempts = @ + 1,
                               !.retry = (RawPage(pageRev, p) /\ @)]]
               /\ UNCHANGED pcall
          ELSE /\ preq' = [preq EXCEPT ![p] = [q EXCEPT !.pc = "failed"]]
               /\ pcall' = CallThrows(pcall, ApiError(status))
    /\ UNCHANGED <<now, cacheVars, tokenVars, pageOthers, pageRev, collection>>

(***************************************************************************)
(* IndexedCacheService: indices over ratings, watched items and favorites  *)
(***************************************************************************)
Indices == {"ratings", "watched", "favorites"}

\* createKey(cacheType, params = []) of the list-parameter revision, for a
\* list of primitive parameters: every one adds `:${value}`
RECURSIVE createKeyOfArgs(_, _)
createKeyOfArgs(type, args) ==
    IF args = << >> THEN <<type>>
    ELSE createKeyOfArgs(type, SubSeq(args, 1, Len(args) - 1))
         \o <<":", args[Len(args)]>>

\* the arguments of the cached client's calls that fill an index
SourceCalls(index) ==
    IF index = "watched" THEN {<<"movies">>, <<"shows">>, <<"episodes">>}
    ELSE {<< >>}

\* the cache key of a call of the cached client: cache type + call arguments
SourceKey(index, args) == createKeyOfArgs(index, args)

SourceKeys(index) == {SourceKey(index, args) : args \in SourceCalls(index)}

\* the keys has() is asked about and the keys the cached client stores under
IndexKeys ==
    {createKeyOfArgs(i, << >>) : i \in Indices} \cup
    UNION {SourceKeys(i) : i \in Indices}

\* cacheManager.has(key): a valid memory item or an item on disk
has(key) == sourceCached[key]

\* this.#index && (await cacheManager.has(CACHE_TYPES.INDEX))
IndexIsCurrent(index) ==
    indexBuilt[index] /\ has(createKeyOfArgs(index, << >>))

NoIndexCall == [index |-> Null, pc |-> "idle", hadIndex |-> FALSE,
                sourceValid |-> FALSE, clientCalls |-> 0, outcome |-> "none"]

IndexIdle ==
    /\ indexBuilt = [i \in Indices |-> FALSE]
    /\ sourceCached = [k \in IndexKeys |-> FALSE]
    /\ indexCall = NoIndexCall

\* ratings() / watched() / favorites() up to the first call of the cached
\* client: the existing index is returned, or the index is about to be rebuilt
\* (watched() replaces #watched by an empty map before it fetches)
IndexCallStart(index) ==
    /\ indexCall.pc # "fetching"
    /\ LET c == [NoIndexCall EXCEPT !.index = index,
                    !.hadIndex = indexBuilt[index],
                    !.sourceValid = \A k \in SourceKeys(index) : sourceCached[k]]
       IN IF IndexIsCurrent(index)
          THEN /\ indexCall' = [c EXCEPT !.pc = "done", !.outcome = "existing"]
               /\ UNCHANGED indexBuilt
          ELSE /\ indexCall' = [c EXCEPT !.pc = "fetching"]
               /\ indexBuilt' = [indexBuilt EXCEPT ![index] = (@ \/ index = "watched")]
    /\ UNCHANGED <<now, cacheVars, tokenVars, indexOthers, sourceCached>>

\* the cached client answers every call: what it had to fetch is now cached,
\* and the index is rebuilt from the answers
IndexCallRebuilds ==
    /\ indexCall.pc = "fetching"
    /\ indexCall' = [indexCall EXCEPT !.pc = "done", !.outcome = "rebuilt",
                        !.clientCalls = Cardinality(SourceCalls(indexCall.index))]
    /\ sourceCached' = [k \in IndexKeys |->
                          sourceCached[k] \/ k \in SourceKeys(indexCall.index)]
    /\ indexBuilt' = [indexBuilt EXCEPT ![indexCall.index] = TRUE]
    /\ UNCHANGED <<now, cacheVars, tokenVars, indexOthers>>

\* a call of the cached client throws: the index call rejects
IndexCallFails ==
    /\ indexCall.pc = "fetching"
    /\ indexCall' = [indexCall EXCEPT !.pc = "done", !.outcome = "error",
                        !.clientCalls = Cardinality(SourceCalls(indexCall.index))]
    /\ UNCHANGED <<now, cacheVars, tokenVars, indexOthers, indexBuilt, sourceCached>>

\* the TTL of a cache entry runs out
SourceExpires(key) ==
    /\ sourceCached[key]
    /\ sourceCached' = [sourceCached EXCEPT ![key] = FALSE]
    /\ UNCHANGED <<now, cacheVars, tokenVars, indexOthers, indexBuilt, indexCall>>

(***************************************************************************)
(* Records: composite keys, enrichment against the indices, flattening     *)
(***************************************************************************)
\* the nested payloads a record can carry, and its type tags ("person": a
\* tag no branch knows; Null: no tag)
PayloadNames == {"movie", "show", "season", "episode"}
ItemTypes == PayloadNames \cup {"person", Null}

\* a record: its tag, the payloads present, what item[type].ids holds
\* ("full": ids with a trakt id, "notrakt": ids without one, "noids": no
\* ids), the trakt id, and the record's own id (history entries have one)
Items ==
    [type : ItemTypes, payloads : SUBSET PayloadNames,
     ids : {"full", "notrakt", "noids"}, trakt : {"1", "2"},
     id : {UndefinedValue, "7"}]

\* `${type}:${id}`
ItemKey(type, id) == <<type, ":", id>>
KeyResult(key) == [outcome |-> "key", key |-> key]
NoKey == [outcome |-> "nokey", key |-> << >>]
KeyThrows == [outcome |-> "throw", key |-> << >>]

\* getItemKey(item, type = null)
getItemKey(item, type) ==
    LET t == IF type = Null THEN item.type ELSE type
    IN IF t = Null THEN KeyThrows
       ELSE IF t \notin item.payloads THEN KeyThrows
       ELSE IF item.ids # "noids"
            THEN KeyResult(ItemKey(t, IF item.ids = "full" THEN item.trakt
                                      ELSE UndefinedValue))
       ELSE IF item.id # UndefinedValue THEN KeyResult(ItemKey(t, item.id))
       ELSE KeyThrows

\* DataEnricher.createItemKey(item)
createItemKey(item) ==
    IF item.type = Null THEN NoKey
    ELSE IF item.type \notin item.payloads \/ item.ids # "full" THEN NoKey
    ELSE KeyResult(ItemKey(item.type, item.trakt))

\* `${item.type}:${item[item.type]?.ids?.trakt}` of ratings.enrichItem
TemplateKey(item) ==
    KeyResult(ItemKey(IF item.type = Null THEN UndefinedValue ELSE item.type,
                      IF item.type \in item.payloads /\ item.ids = "full"
                      THEN item.trakt ELSE UndefinedValue))

\* the keys the indices hold entries for
IndexedKeys == {ItemKey("movie", "1"), ItemKey("movie", "2")}
Absent == [present |-> FALSE, rating |-> UndefinedValue, plays |-> UndefinedValue,
           last_watched_at |-> UndefinedValue, reset_at |-> UndefinedValue,
           notes |-> UndefinedValue]
RatingEntries == {Absent, [Absent EXCEPT !.present = TRUE, !.rating = "8"]}
WatchedEntries ==
    {Absent,
     [Absent EXCEPT !.present = TRUE, !.plays = "3", !.last_watched_at = "t2"],
     [Absent EXCEPT !.present = TRUE, !.plays = "3", !.last_watched_at = "t2",
                    !.reset_at = "r1"]}
FavoriteEntries == {Absent, [Absent EXCEPT !.present = TRUE, !.notes = "n"]}
AllIndexed ==
    [ratings : [IndexedKeys -> RatingEntries],
     watched : [IndexedKeys -> WatchedEntries],
     favorites : [IndexedKeys -> FavoriteEntries]]

\* Map.get(key) of one index
MapGet(map, key) == IF key \in DOMAIN map THEN map[key] ELSE Absent

\* the transformers that enrich: history.enrichItem, ratings.enrichItem,
\* TransformerService.enrichHistoryItem
EnrichKinds == {"history", "ratings", "historyService"}

NotEnriched == [outcome |-> "none", base |-> Null, rating |-> UndefinedValue,
                plays |-> UndefinedValue, last_watched_at |-> UndefinedValue,
                rewatch_started |-> UndefinedValue, favorite |-> UndefinedValue,
                favorite_note |-> UndefinedValue]

\* x || undefined, x ?? "0"
OrUndefined(x) == IF x \in {UndefinedValue, "0", ""} THEN UndefinedValue ELSE x
OrZero(x) == IF x = UndefinedValue THEN "0" ELSE x

\* enrichItem(item, indexed)
enrichItem(kind, item, indexed) ==
    LET k == IF kind = "ratings" THEN TemplateKey(item) ELSE getItemKey(item, Null)
        rating   == MapGet(indexed.ratings, k.key)
        watched  == MapGet(indexed.watched, k.key)
        favorite == MapGet(indexed.favorites, k.key)
    IN IF k.outcome = "throw" THEN [NotEnriched EXCEPT !.outcome = "throw"]
       ELSE [outcome |-> "value",
             base |-> item,
             rating |-> IF kind = "ratings" THEN "own" ELSE rating.rating,
             plays |-> IF kind = "ratings" THEN OrZero(watched.plays)
                       ELSE OrUndefined(watched.plays),
             last_watched_at |-> watched.last_watched_at,
             rewatch_started |-> IF kind = "history" THEN UndefinedValue
                                 ELSE watched.reset_at,
             favorite |-> IF favorite.present THEN "true" ELSE UndefinedValue,
             favorite_note |-> IF kind = "ratings" THEN favorite.notes
                               ELSE OrUndefined(favorite.notes)]

\* the transformers that flatten: history.flattenItem, ratings.flattenItem
FlattenKinds == {"history", "ratings"}

\* the enrichment an enriched record carries into flattenItem
Enrichments ==
    [rating : {UndefinedValue, "8"}, plays : {UndefinedValue, "3"},
     watched_at : {"t1"}, last_watched_at : {UndefinedValue, "t1", "t2"},
     favorite : {UndefinedValue, "true"}]

\* item.payload.field: a TypeError when the payload is absent
Prop(item, payload, field) ==
    IF payload \in item.payloads THEN <<payload, field>> ELSE <<"TypeError">>

\* mutant: the branches test the type tag only
BranchFields_Unguarded(item) ==
    CASE item.type \in {"movie", "show"} ->
            << <<"title", Prop(item, item.type, "title")>>,
               <<"year", Prop(item, item.type, "year")>> >>
      [] item.type = "season" ->
            << <<"title", Prop(item, "show", "title") \o <<" - Season ">>
                          \o Prop(item, "season", "number")>>,
               <<"show_title", Prop(item, "show", "title")>>,
               <<"show_year", Prop(item, "show", "year")>>,
               <<"season", Prop(item, "season", "number")>> >>
      [] item.type = "episode" ->
            << <<"show_title", Prop(item, "show", "title")>>,
               <<"show_year", Prop(item, "show", "year")>>,
               <<"episode_title", Prop(item, "episode", "title")>>,
               <<"episode_number", Prop(item, "episode", "number")>>,
               <<"season", Prop(item, "episode", "season")>> >>
      [] OTHER -> << >>

\* the type-specific fields of flattenItem, in the order they are assigned
BranchFields(item) ==
    CASE item.type \in {"movie", "show"} /\ item.type \in item.payloads ->
            << <<"title", Prop(item, item.type, "title")>>,
               <<"year", Prop(item, item.type, "year")>> >>
      [] item.type = "season" /\ {"season", "show"} \subseteq item.payloads ->
            << <<"title", Prop(item, "show", "title") \o <<" - Season ">>
                          \o Prop(item, "season", "number")>>,
               <<"show_title", Prop(item, "show", "title")>>,
               <<"show_year", Prop(item, "show", "year")>>,
               <<"season", Prop(item, "season", "number")>> >>
      [] item.type = "episode" /\ {"episode", "show"} \subseteq item.payloads ->
            << <<"show_title", Prop(item, "show", "title")>>,
               <<"show_year", Prop(item, "show", "year")>>,
               <<"episode_title", Prop(item, "episode", "title")>>,
               <<"episode_number", Prop(item, "episode", "number")>>,
               <<"season", Prop(item, "episode", "season")>> >>
      [] OTHER -> << >>

\* mutant: plays is assigned before rating
TailFields_PlaysFirst(kind, e) ==
    << <<"plays", <<OrZero(e.plays)>> >>, <<"rating", <<e.rating>> >>,
       <<"last_watched_at", <<e.last_watched_at>> >>,
       <<"favorite", <<e.favorite>> >>, <<"favorite_note", <<UndefinedValue>> >> >>

\* "Add enriched data at the end"
TailFields(kind, e) ==
    IF kind = "ratings"
    THEN << <<"rating", <<e.rating>> >>, <<"rated_at", <<"rated">> >>,
            <<"plays", <<OrZero(e.plays)>> >>,
            <<"last_watched_at", <<e.last_watched_at>> >>,
            <<"favorite", <<e.favorite>> >>,
            <<"favorite_note", <<UndefinedValue>> >> >>
    ELSE << <<"rating", <<e.rating>> >>,
            <<"plays", <<OrZero(e.plays)>> >>,
            <<"watched_at", <<e.watched_at>> >>,
            <<"last_watched_at", <<IF e.watched_at # e.last_watched_at
                                    THEN e.last_watched_at ELSE UndefinedValue>> >>,
            <<"favorite", <<e.favorite>> >>,
            <<"favorite_note", <<UndefinedValue>> >> >>

\* flattenItem(item): the fields of the flat record in insertion order
flattenItem(kind, item, e) ==
    LET fields == << <<"type", <<item.type>> >> >> \o BranchFields(item)
                  \o TailFields(kind, e)
    IN IF \E i \in DOMAIN fields, j \in 1..4 :
              j \in DOMAIN fields[i][2] /\ fields[i][2][j] = "TypeError"
       THEN [outcome |-> "throw", fields |-> << >>]
       ELSE [outcome |-> "value", fields |-> fields]

NotFlattened == [outcome |-> "none", fields |-> << >>]

\* history items that share composite keys: at most MaxHistory items with
\* watched_at among the times 1..MaxTime
MaxHistory == 3
MaxTime == 3
HistoryItems == [id : {"1", "2"}, watched_at : 1..MaxTime]
HistoryLists == UNION {[1..n -> HistoryItems] : n \in 1..MaxHistory}

\* no entry of a Map from ids to watched_at times
NoTime == 0
EmptyMap == [id \in {"1", "2"} |-> NoTime]

\* the call of one of the functions on a record
NoItemCall ==
    [op |-> "none", kind |-> Null, done |-> FALSE,
     item |-> [type |-> Null, payloads |-> {}, ids |-> "noids", trakt |-> "1",
               id |-> UndefinedValue],
     indexed |-> [ratings |-> [k \in IndexedKeys |-> Absent],
                  watched |-> [k \in IndexedKeys |-> Absent],
                  favorites |-> [k \in IndexedKeys |-> Absent]],
     enrichment |-> [rating |-> UndefinedValue, plays |-> UndefinedValue,
                     watched_at |-> "t1", last_watched_at |-> UndefinedValue,
                     favorite |-> UndefinedValue],
     key |-> NoKey, created |-> NoKey, enriched |-> NotEnriched,
     flattened |-> NotFlattened,
     list |-> << >>, watchedIndex |-> EmptyMap, historyMap |-> EmptyMap]

\* records with the payload of their type, and records without it
JoinItems ==
    {i \in Items : i.type = "movie" /\ i.payloads \in {{"movie"}, {}}}

ItemCalls ==
    {[NoItemCall EXCEPT !.op = "key", !.item = i] : i \in Items} \cup
    {[NoItemCall EXCEPT !.op = "enrich", !.kind = k, !.item = i, !.indexed = x] :
        k \in EnrichKinds, i \in JoinItems, x \in AllIndexed} \cup
    {[NoItemCall EXCEPT !.op = "flatten", !.kind = k, !.item = i, !.enrichment = e] :
        k \in FlattenKinds,
        i \in {j \in Items : j.ids = "full" /\ j.trakt = "1" /\ j.id = "7"},
        e \in Enrichments} \cup
    {[NoItemCall EXCEPT !.op = "index", !.list = l] :
        l \in HistoryLists}

ItemIdle == itemCall = NoItemCall

\* getItemKey(item) and createItemKey(item)
ApplyItemKey ==
    /\ itemCall.op = "key" /\ ~itemCall.done
    /\ itemCall' = [itemCall EXCEPT !.done = TRUE,
                       !.key = getItemKey(itemCall.item, Null),
                       !.created = createItemKey(itemCall.item)]
    /\ UNCHANGED <<now, cacheVars, tokenVars, itemOthers>>

\* enrichItem(item, indexed)
ApplyEnrichItem ==
    /\ itemCall.op = "enrich" /\ ~itemCall.done
    /\ itemCall' = [itemCall EXCEPT !.done = TRUE,
                       !.enriched = enrichItem(itemCall.kind, itemCall.item,
                                               itemCall.indexed)]
    /\ UNCHANGED <<now, cacheVars, tokenVars, itemOthers>>

\* flattenItem(item)
ApplyFlattenItem ==
    /\ itemCall.op = "flatten" /\ ~itemCall.done
    /\ itemCall' = [itemCall EXCEPT !.done = TRUE,
                       !.flattened = flattenItem(itemCall.kind, itemCall.item,
                                                 itemCall.enrichment)]
    /\ UNCHANGED <<now, cacheVars, tokenVars, itemOthers>>

\* IndexedCacheService.watched(): watched.set(key, item) for every item
RECURSIVE watchedIndex(_)
watchedIndex(list) ==
    IF list = << >> THEN EmptyMap
    ELSE LET item == list[Len(list)]
         IN [watchedIndex(SubSeq(list, 1, Len(list) - 1)) EXCEPT ![item.id] = item.watched_at]

\* DataEnricher.enrichWithWatchHistory: historyMap keeps the most recent watch
RECURSIVE historyMap(_)
historyMap(list) ==
    IF list = << >> THEN EmptyMap
    ELSE LET item == list[Len(list)]
             map  == historyMap(SubSeq(list, 1, Len(list) - 1))
         IN IF map[item.id] = NoTime \/ item.watched_at > map[item.id]
            THEN [map EXCEPT ![item.id] = item.watched_at]
            ELSE map

\* the index is built from the list and a record is enriched from it
ApplyBuildIndex ==
    /\ itemCall.op = "index" /\ ~itemCall.done
    /\ itemCall' = [itemCall EXCEPT !.done = TRUE,
                       !.watchedIndex = watchedIndex(itemCall.list),
                       !.historyMap = historyMap(itemCall.list)]
    /\ UNCHANGED <<now, cacheVars, tokenVars, itemOthers>>

(***************************************************************************)
(* getRatings: filters, sorting, limit and pagination info                 *)
(***************************************************************************)
\* "service": DataService.getRatings; "processor": DataProcessor.getRatings,
\* the earlier variant
RatingsRevs == {"service", "processor"}

\* at most MaxRatings rated items with ratings 1..MaxRating
MaxRatings == 2
MaxRating == 3
RatedAttrs ==
    [type : {"movie", "show"}, rating : 1..MaxRating, rated_at : 1..2,
     plays : {0, 1}]
RatedLists ==
    UNION {{[i \in 1..n |-> [id |-> i, type |-> l[i].type, rating |-> l[i].rating,
                              rated_at |-> l[i].rated_at, plays |-> l[i].plays]] :
               l \in [1..n -> RatedAttrs]} : n \in 1..MaxRatings}

\* itemTypeMatchesFilter(item_type, type_filter)
itemTypeMatchesFilter(item_type, type_filter) ==
    CASE type_filter = "all" -> TRUE
      [] type_filter = "movies" -> item_type = "movie"
      [] type_filter = "shows" -> item_type = "show"
      [] OTHER -> FALSE

\* the value the items are sorted by
SortValue(item, sortBy) == IF sortBy = "rating" THEN item.rating ELSE item.rated_at

\* Array.prototype.sort with (a, b) => valueB - valueA: stable, descending
RECURSIVE InsertDesc(_, _, _)
InsertDesc(sorted, item, sortBy) ==
    IF sorted = << >> THEN <<item>>
    ELSE IF SortValue(Head(sorted), sortBy) >= SortValue(item, sortBy)
         THEN <<Head(sorted)>> \o InsertDesc(Tail(sorted), item, sortBy)
         ELSE <<item>> \o sorted
RECURSIVE SortDesc(_, _)
SortDesc(list, sortBy) ==
    IF list = << >> THEN << >>
    ELSE InsertDesc(SortDesc(SubSeq(list, 1, Len(list) - 1), sortBy),
                    list[Len(list)], sortBy)

\* getRatings({type, minRating, limit, sortBy, includeUnwatched}) with
\* order = 'desc' and no maxRating; the earlier variant takes type, limit
\* and page = 1
getRatings(rev, c) ==
    IF rev = "service"
    THEN LET typed    == SelectSeq(c.list, LAMBDA i : itemTypeMatchesFilter(i.type, c.type))
             rated    == IF c.minRating = Undefined THEN typed
                         ELSE SelectSeq(typed, LAMBDA i : i.rating >= c.minRating)
             watched  == IF c.includeUnwatched THEN rated
                         ELSE SelectSeq(rated, LAMBDA i : i.plays > 0)
             sorted   == SortDesc(watched, c.sortBy)
         IN [data |-> sliceData(sorted, c.limit), itemCount |-> Len(sorted)]
    ELSE LET typed == IF c.type = "all" THEN c.list
                      ELSE SelectSeq(c.list, LAMBDA i : itemTypeMatchesFilter(i.type, c.type))
             page  == SubSeq(typed, 1, Min(c.limit, Len(typed)))
         IN [data |-> page, itemCount |-> Len(page)]

NoRatingsCall ==
    [rev |-> "service", list |-> << >>, type |-> "all", minRating |-> Undefined,
     limit |-> 1, sortBy |-> "rated_at", includeUnwatched |-> FALSE,
     done |-> FALSE, data |-> << >>, itemCount |-> 0]

RatingsCalls ==
    {[NoRatingsCall EXCEPT !.list = l, !.type = t, !.minRating = m,
                           !.sortBy = s, !.includeUnwatched = u] :
        l \in RatedLists, t \in {"all", "movies"}, m \in {Undefined, 2},
        s \in {"rated_at", "rating"}, u \in BOOLEAN} \cup
    {[NoRatingsCall EXCEPT !.rev = "processor", !.list = l, !.type = t] :
        l \in RatedLists, t \in {"all", "movies"}}

RatingsIdle == ratingsCall = NoRatingsCall

\* the request is answered
ApplyGetRatings ==
    /\ ratingsCall.list # << >> /\ ~ratingsCall.done
    /\ ratingsCall' = [ratingsCall EXCEPT !.done = TRUE,
                          !.data = getRatings(ratingsCall.rev, ratingsCall).data,
                          !.itemCount = getRatings(ratingsCall.rev, ratingsCall).itemCount]
    /\ UNCHANGED <<now, cacheVars, tokenVars, ratingsOthers>>

(***************************************************************************)
(* CacheManager.flushType over keys of two cache types                     *)
(***************************************************************************)
\* the keys in use: two of cache type history, one of cache type ratings
FlushKeys ==
    {createKeyOfArgs("history", << >>), createKeyOfArgs("history", <<"movies">>),
     createKeyOfArgs("ratings", << >>)}
FlushTypes == {"history", "ratings"}

\* key.startsWith(cacheType): the key begins with its cache type, and no
\* cache type is the beginning of another
StartsWith(key, cacheType) == Head(key) = cacheType

\* storage.keys() as a list
RECURSIVE KeyList(_)
KeyList(keys) ==
    IF keys = {} THEN << >>
    ELSE LET k == CHOOSE x \in keys : TRUE IN <<k>> \o KeyList(keys \ {k})

NoFlush == [pc |-> "idle", cacheType |-> Null, keys |-> << >>, count |-> 0,
            removed |-> {}]

FlushIdle ==
    /\ flushMemory = [k \in FlushKeys |-> "none"]
    /\ flushDisk = [k \in FlushKeys |-> FALSE]
    /\ flushWriting = [k \in FlushKeys |-> FALSE]
    /\ flush = NoFlush

\* set(key, value, {ttl}): the memory item is written ("ttl": with expiresAt,
\* "forever": without), the write to the storage is awaited
FlushSet(key, ttl) ==
    /\ flush.pc = "idle"
    /\ ~flushWriting[key]
    /\ flushMemory' = [flushMemory EXCEPT ![key] = IF Truthy(ttl) THEN "ttl" ELSE "forever"]
    /\ flushWriting' = [flushWriting EXCEPT ![key] = TRUE]
    /\ UNCHANGED <<now, cacheVars, tokenVars, flushOthers, flushDisk, flush>>

\* storage.setItem of a set completes
FlushSetItemCompletes(key) ==
    /\ flushWriting[key]
    /\ flushWriting' = [flushWriting EXCEPT ![key] = FALSE]
    /\ flushDisk' = [flushDisk EXCEPT ![key] = TRUE]
    /\ UNCHANGED <<now, cacheVars, tokenVars, flushOthers, flushMemory, flush>>

\* the TTL of an entry passes: the stored datum (which always has a TTL, the
\* storage's default if none was given) and a memory item with expiresAt are
\* gone, a memory item without expiresAt stays
FlushTtlPasses(key) ==
    /\ flush.pc = "idle"
    /\ flushDisk[key] /\ ~flushWriting[key]
    /\ flushDisk' = [flushDisk EXCEPT ![key] = FALSE]
    /\ flushMemory' = [flushMemory EXCEPT ![key] = IF @ = "ttl" THEN "none" ELSE @]
    /\ UNCHANGED <<now, cacheVars, tokenVars, flushOthers, flushWriting, flush>>

\* flushType(cacheType): keys = await storage.keys()
FlushTypeStart(cacheType) ==
    /\ flush.pc = "idle"
    /\ flush' = [NoFlush EXCEPT !.pc = "loop", !.cacheType = cacheType,
                    !.keys = KeyList({k \in FlushKeys : flushDisk[k]})]
    /\ UNCHANGED <<now, cacheVars, tokenVars, flushOthers, flushMemory, flushDisk,
                   flushWriting>>

\* one turn of the loop: a key of the type is deleted from the memory cache
\* and removed from the storage
FlushTypeStep ==
    /\ flush.pc = "loop" /\ flush.keys # << >>
    /\ LET key == Head(flush.keys)
       IN IF StartsWith(key, flush.cacheType)
          THEN /\ flushMemory' = [flushMemory EXCEPT ![key] = "none"]
               /\ flushDisk' = [flushDisk EXCEPT ![key] = FALSE]
               /\ flush' = [flush EXCEPT !.keys = Tail(@), !.count = @ + 1,
                               !.removed = @ \cup {key}]
          ELSE /\ flush' = [flush EXCEPT !.keys = Tail(@)]
               /\ UNCHANGED <<flushMemory, flushDisk>>
    /\ UNCHANGED <<now, cacheVars, tokenVars, flushOthers, flushWriting>>

\* return count
FlushTypeReturns ==
    /\ flush.pc = "loop" /\ flush.keys = << >>
    /\ flush' = [flush EXCEPT !.pc = "done"]
    /\ UNCHANGED <<now, cacheVars, tokenVars, flushOthers, flushMemory, flushDisk,
                   flushWriting>>

(***************************************************************************)
(* Enrichment passes: all() builds the three indices, then records are     *)
(* enriched                                                                *)
(***************************************************************************)
\* concurrent requests, each running one enrichment pass
NumPasses == 2
PassIds == 1..NumPasses

\* the calls that fill the watched index
WatchTypes == {"movies", "shows", "episodes"}

\* no Map assigned to the field yet; a Map is named after the pass that
\* created it
NoMap == 0

NoBuild == [pc |-> "idle", pending |-> {}, got |-> NoMap]
NoPass == [pc |-> "idle", builds |-> [i \in Indices |-> NoBuild],
           observed |-> {}]

BuildIdle ==
    /\ indexMap = [i \in Indices |-> NoMap]
    /\ watchedFilled = [p \in PassIds |-> {}]
    /\ passes = [p \in PassIds |-> NoPass]

\* ratings() / watched() / favorites() up to their first fetch: the existing
\* index is returned when the cache has the index's key (never for watched,
\* whose entries are stored under other keys); else the fetches are started,
\* watched() assigning a new empty Map to #watched first
BuildStarted(p, index, hit) ==
    IF index # "watched" /\ indexMap[index] # NoMap /\ hit
    THEN [NoBuild EXCEPT !.pc = "done", !.got = indexMap[index]]
    ELSE [NoBuild EXCEPT !.pc = "fetching",
                         !.pending = IF index = "watched" THEN WatchTypes ELSE {index}]

\* enrich(items): indexedCacheService.all() starts the three builds
StartPass(p, hitRatings, hitFavorites) ==
    /\ passes[p].pc = "idle"
    /\ \A q \in PassIds : q < p => passes[q].pc # "idle"
    /\ passes' = [passes EXCEPT ![p] =
          [NoPass EXCEPT !.pc = "building",
              !.builds = [i \in Indices |->
                  BuildStarted(p, i, IF i = "ratings" THEN hitRatings ELSE hitFavorites)]]]
    /\ indexMap' = [indexMap EXCEPT !["watched"] = p]
    /\ watchedFilled' = [watchedFilled EXCEPT ![p] = {}]
    /\ UNCHANGED <<now, cacheVars, tokenVars, buildOthers>>

\* cachedTraktClient.getRatings() / getFavorites() returns: the new Map is
\* assigned and filled without a suspension
IndexFetchReturns(p, index) ==
    /\ index # "watched"
    /\ passes[p].builds[index].pc = "fetching"
    /\ indexMap' = [indexMap EXCEPT ![index] = p]
    /\ passes' = [passes EXCEPT ![p].builds[index] =
                     [@ EXCEPT !.pc = "done", !.pending = {}, !.got = p]]
    /\ UNCHANGED <<now, cacheVars, tokenVars, buildOthers, watchedFilled>>

\* cachedTraktClient.getWatched(queryType) returns: its items go into the Map
\* this call of watched() created; after the last of the three, watched()
\* returns this.#watched
WatchedFetchReturns(p, queryType) ==
    /\ passes[p].builds["watched"].pc = "fetching"
    /\ queryType \in passes[p].builds["watched"].pending
    /\ watchedFilled' = [watchedFilled EXCEPT ![p] = @ \cup {queryType}]
    /\ passes' = [passes EXCEPT ![p].builds["watched"] =
          IF @.pending = {queryType}
          THEN [@ EXCEPT !.pc = "done", !.pending = {}, !.got = indexMap["watched"]]
          ELSE [@ EXCEPT !.pending = @ \ {queryType}]]
    /\ UNCHANGED <<now, cacheVars, tokenVars, buildOthers, indexMap>>

\* a call of the cached client throws: the build rejects
IndexFetchFails(p, index) ==
    /\ passes[p].builds[index].pc = "fetching"
    /\ passes' = [passes EXCEPT ![p].builds[index].pc = "failed"]
    /\ UNCHANGED <<now, cacheVars, tokenVars, buildOthers, indexMap, watchedFilled>>

\* mutant: all() resolves with the first index that is ready
AllBuilt_Any(p) == \E i \in Indices : passes[p].builds[i].pc = "done"

\* Promise.all([ratings(), watched(), favorites()]) resolves
AllBuilt(p) == \A i \in Indices : passes[p].builds[i].pc = "done"

\* all() has resolved: items.map(item => enrichItem(item, indexed)) runs
\* against the Maps the builds returned
EnrichRecords(p) ==
    /\ passes[p].pc = "building"
    /\ AllBuilt(p)
    /\ passes' = [passes EXCEPT ![p].pc = "enriched",
                                ![p].observed =
                                    IF passes[p].builds["watched"].got = NoMap THEN {}
                                    ELSE watchedFilled[passes[p].builds["watched"].got]]
    /\ UNCHANGED <<now, cacheVars, tokenVars, buildOthers, indexMap, watchedFilled>>

\* Promise.all rejects: enrich throws
PassFails(p) ==
    /\ passes[p].pc = "building"
    /\ \E i \in Indices : passes[p].builds[i].pc = "failed"
    /\ passes' = [passes EXCEPT ![p].pc = "failed"]
    /\ UNCHANGED <<now, cacheVars, tokenVars, buildOthers, indexMap, watchedFilled>>

(***************************************************************************)
(* The durable tier fails: storage reads and writes that throw or reject   *)
(***************************************************************************)
\* no value held by a tier
NoValue == "none"
TierValues == {NoValue, "a"}

\* successive requests for one key
MaxCalls == 2

NoTierCall == [rev |-> "sync", pc |-> "idle", calls |-> 0, forceRefresh |-> FALSE,
               memoryHeld |-> FALSE, upstreamOk |-> FALSE,
               memory |-> NoValue, disk |-> NoValue, outcome |-> "none",
               staleRead |-> FALSE, readFailed |-> FALSE, writeFailed |-> FALSE,
               unhandled |-> FALSE]

\* a manager with what earlier requests left in its tiers
TierCalls ==
    {[NoTierCall EXCEPT !.rev = rev, !.memory = memory, !.disk = disk] :
        rev \in CacheRevs, memory \in TierValues, disk \in TierValues}

DurableIdle == tierCall = NoTierCall

TierDone(c, outcome) == [c EXCEPT !.pc = "done", !.outcome = outcome]

\* CacheManager.get up to the storage read: a memory hit returns at once
TierMemoryHit(c) == c.memory # NoValue

\* CacheManager.get after the storage read: a value found is restored to
\* memory and returned, else null; a read that throws leaves get throwing
TierAfterRead(c, readFails) ==
    IF readFails
    THEN [TierDone(c, "storageError") EXCEPT !.readFailed = TRUE]
    ELSE IF c.disk # NoValue
         THEN [TierDone(c, "disk") EXCEPT !.memory = c.disk]
         ELSE TierDone(c, "null")

\* the synchronous manager's get(key) as #cachedRequest uses its result: a
\* value is returned, null falls through to the fetch
TierGetSync(c, readFails) ==
    IF TierMemoryHit(c) THEN TierDone(c, "memory")
    ELSE LET r == TierAfterRead(c, readFails)
         IN  IF r.outcome = "null" THEN [c EXCEPT !.pc = "fetching"] ELSE r

\* the asynchronous manager's get(key): its Promise is truthy, #cachedRequest
\* returns it and the request settles as the Promise does
TierGetAsync(c) ==
    IF TierMemoryHit(c) THEN TierDone(c, "memory")
    ELSE [c EXCEPT !.pc = "reading"]

\* #cachedRequest up to its first suspension; the tiers are as the previous
\* request left them
TierCallStart(force, upstreamOk, readFails) ==
    /\ tierCall.pc \in {"idle", "done"}
    /\ tierCall.calls < MaxCalls
    /\ LET c == [NoTierCall EXCEPT !.rev = tierCall.rev,
                                   !.calls = tierCall.calls + 1,
                                   !.forceRefresh = force,
                                   !.memory = tierCall.memory,
                                   !.disk = tierCall.disk,
                                   !.memoryHeld = (tierCall.memory # NoValue),
                                   !.upstreamOk = upstreamOk]
       IN  tierCall' =
             IF force THEN [c EXCEPT !.pc = "fetching"]
             ELSE IF c.rev = "sync" THEN TierGetSync(c, readFails)
             ELSE TierGetAsync(c)
    /\ UNCHANGED <<now, cacheVars, tokenVars, durableOthers>>

\* await storage.getItem(key) settles
TierReadSettles(readFails) ==
    /\ tierCall.pc = "reading"
    /\ tierCall' = TierAfterRead(tierCall, readFails)
    /\ UNCHANGED <<now, cacheVars, tokenVars, durableOthers>>

\* the synchronous manager's set threw inside the try block: the catch
\* returns what get(key) finds when forcing a refresh (the memory tier was
\* written before the throw), else rethrows
TierAfterWriteThrows(c) ==
    IF c.forceRefresh THEN TierDone(c, "fresh") ELSE TierDone(c, "storageError")

\* await fetchFunction(params) returns: cacheManager.set(key, freshData)
\* writes memory, then the storage; the asynchronous set is not awaited
TierFetchReturns(writeFails) ==
    /\ tierCall.pc = "fetching"
    /\ tierCall.upstreamOk
    /\ LET c == [tierCall EXCEPT !.memory = "a"]
       IN  tierCall' =
             IF c.rev = "sync"
             THEN IF writeFails
                  THEN [TierAfterWriteThrows(c) EXCEPT !.writeFailed = TRUE]
                  ELSE [TierDone(c, "fresh") EXCEPT !.disk = "a"]
             ELSE [c EXCEPT !.pc = "writing", !.outcome = "fresh"]
    /\ UNCHANGED <<now, cacheVars, tokenVars, durableOthers>>

\* await storage.setItem(key, value) settles after the request has returned
TierWriteSettles(writeFails) ==
    /\ tierCall.pc = "writing"
    /\ tierCall' =
          IF writeFails
          THEN [tierCall EXCEPT !.pc = "done", !.writeFailed = TRUE, !.unhandled = TRUE]
          ELSE [tierCall EXCEPT !.pc = "done", !.disk = "a"]
    /\ UNCHANGED <<now, cacheVars, tokenVars, durableOthers>>

\* await fetchFunction(params) throws: stale data when forcing a refresh,
\* else the error
TierFetchThrows(readFails) ==
    /\ tierCall.pc = "fetching"
    /\ ~tierCall.upstreamOk
    /\ tierCall' =
          IF ~tierCall.forceRefresh THEN TierDone(tierCall, "upstreamError")
          ELSE IF tierCall.rev = "sync"
               THEN LET r == TierGetSync(tierCall, readFails)
                    IN  IF r.pc = "fetching" THEN TierDone(tierCall, "upstreamError")
                        ELSE r
               ELSE [TierGetAsync(tierCall) EXCEPT !.staleRead = TRUE]
    /\ UNCHANGED <<now, cacheVars, tokenVars, durableOthers>>

(***************************************************************************)
(* TraktClient.#buildUrl                                                   *)
(***************************************************************************)
\* a path is a sequence of segments, each written after a slash; a
\* placeholder segment is ":name"
Lit(text) == [kind |-> "lit", text |-> text]
Ph(name) == [kind |-> "ph", text |-> name]

\* the templates and parameter names of the callers
UrlCallers ==
    { [template |-> <<Lit("users"), Lit("me"), Lit("watchlist")>>,
       names |-> <<"type", "sort", "limit", "page">>],
      [template |-> <<Lit("users"), Lit("me"), Lit("history"), Ph("type"), Ph("item_id")>>,
       names |-> <<"type", "item_id", "start_at", "limit", "page">>],
      [template |-> <<Lit("users"), Lit("me"), Lit("ratings"), Ph("type"), Ph("rating")>>,
       names |-> <<"type", "rating", "limit", "page">>],
      [template |-> <<Lit("users"), Lit("me"), Lit("watched"), Ph("type")>>,
       names |-> <<"type">>] }

\* parameter values: null, undefined, the empty string, a value
UrlValues == {Null, UndefinedValue, "", "v"}

\* url.pathname.includes(`:${key}`): the text ":key" occurs in the path. No
\* caller has a parameter name that is a proper prefix of a placeholder name
\* and no literal segment contains a colon, so this is a placeholder of that
\* name
Includes(path, key) ==
    \E i \in DOMAIN path : path[i].kind = "ph" /\ path[i].text = key

\* url.pathname.replace(`:${key}`, value): the first occurrence
ReplaceFirst(path, key, value) ==
    LET i == CHOOSE j \in DOMAIN path :
                 /\ path[j].kind = "ph" /\ path[j].text = key
                 /\ \A k \in 1..(j - 1) : ~(path[k].kind = "ph" /\ path[k].text = key)
    IN  [path EXCEPT ![i] = Lit(value)]

\* the loop over Object.entries(params)
RECURSIVE Substitute(_, _, _)
Substitute(path, query, params) ==
    IF params = << >> THEN [path |-> path, query |-> query]
    ELSE LET key == Head(params)[1]
             value == Head(params)[2]
         IN  IF value = UndefinedValue \/ value = Null
             THEN Substitute(path, query, Tail(params))
             ELSE IF Includes(path, key)
                  THEN Substitute(ReplaceFirst(path, key, value), query, Tail(params))
                  ELSE Substitute(path, Append(query, <<key, value>>), Tail(params))

IsLiteral(seg) == seg.kind = "lit"

\* mutant: the placeholder is removed without its slash
StripPlaceholders_KeepSlash(path) ==
    [i \in DOMAIN path |-> IF IsLiteral(path[i]) THEN path[i] ELSE Lit("")]

\* pathname.replaceAll(/\/?:\w+/g, ''): each remaining placeholder goes
\* together with the slash before it
StripPlaceholders(path) == SelectSeq(path, IsLiteral)

\* pathname.replaceAll(/\/+/g, '/'): an empty segment with a segment after
\* it is a run of slashes
RECURSIVE CollapseSlashes(_)
CollapseSlashes(path) ==
    IF Len(path) <= 1 THEN path
    ELSE IF Head(path).text = "" THEN CollapseSlashes(Tail(path))
         ELSE <<Head(path)>> \o CollapseSlashes(Tail(path))

\* #buildUrl(baseUrl, params)
buildUrl(template, params) ==
    LET s == Substitute(template, << >>, params)
        path == CollapseSlashes(StripPlaceholders(s.path))
    IN  [path |-> [i \in DOMAIN path |-> path[i].text], query |-> s.query]

RECURSIVE ParamLists(_)
ParamLists(names) ==
    IF names = << >> THEN {<< >>}
    ELSE {<< <<Head(names), v>> >> \o rest :
             v \in UrlValues, rest \in ParamLists(Tail(names))}

NoUrlCall == [template |-> << >>, params |-> << >>, done |-> FALSE,
              url |-> [path |-> << >>, query |-> << >>]]
UrlCalls ==
    UNION {{[NoUrlCall EXCEPT !.template = c.template, !.params = p] :
               p \in ParamLists(c.names)} : c \in UrlCallers}

UrlIdle == urlCall = NoUrlCall

ApplyBuildUrl ==
    /\ ~urlCall.done
    /\ urlCall' = [urlCall EXCEPT !.done = TRUE,
                                  !.url = buildUrl(urlCall.template, urlCall.params)]
    /\ UNCHANGED <<now, cacheVars, tokenVars, urlOthers>>

(***************************************************************************)
(* The server's middleware chain: express.json(), auth, the routes         *)
(***************************************************************************)
\* revisions of server.js: "plain" ends with the routes, "errors" registers
\* errorMiddleware after them
ServerRevs == {"plain", "errors"}

\* inbound requests in flight
NumInbound == 2
InboundIds == 1..NumInbound

\* config.API_KEY: process.env.API_KEY || ''
ApiKeys == {"", "secret"}
\* req.headers['x-api-key']: undefined when the header is absent
HeaderValues == {UndefinedValue, "", "other", "secret"}
\* the request body: none, JSON, or text that is not JSON sent as JSON
Bodies == {"none", "json", "malformed"}

NoStatus == 0
NoInbound == [pc |-> "idle", header |-> UndefinedValue, body |-> "none",
              status |-> NoStatus, handled |-> FALSE]

AuthIdle ==
    /\ serverRev = "plain"
    /\ apiKeyConfig = ""
    /\ inbound = [r \in InboundIds |-> NoInbound]

\* a request arrives
Arrive(r, header, body) ==
    /\ inbound[r].pc = "idle"
    /\ \A q \in InboundIds : q < r => inbound[q].pc # "idle"
    /\ inbound' = [inbound EXCEPT ![r] =
                      [NoInbound EXCEPT !.pc = "json", !.header = header, !.body = body]]
    /\ UNCHANGED <<now, cacheVars, tokenVars, authOthers, serverRev, apiKeyConfig>>

\* app.use(express.json()): the body is parsed; a body that does not parse
\* is passed on as an error, which skips auth and the routes
ParseBody(r) ==
    /\ inbound[r].pc = "json"
    /\ inbound' = [inbound EXCEPT ![r].pc =
                      IF inbound[r].body = "malformed" THEN "error" ELSE "auth"]
    /\ UNCHANGED <<now, cacheVars, tokenVars, authOthers, serverRev, apiKeyConfig>>

\* mutant: only an absent header is refused
Refused_AbsentOnly(header, key) == header = UndefinedValue

\* !apiKey || apiKey !== config.API_KEY
Refused(header, key) == header = UndefinedValue \/ header = "" \/ header # key

\* app.use(auth)
Auth(r) ==
    /\ inbound[r].pc = "auth"
    /\ inbound' = [inbound EXCEPT ![r] =
          IF Refused(inbound[r].header, apiKeyConfig)
          THEN [@ EXCEPT !.pc = "done", !.status = 401]
          ELSE [@ EXCEPT !.pc = "route"]]
    /\ UNCHANGED <<now, cacheVars, tokenVars, authOthers, serverRev, apiKeyConfig>>

\* a route handler runs: it calls the services, which use the cache and the
\* upstream
RouteHandler(r) ==
    /\ inbound[r].pc = "route"
    /\ inbound' = [inbound EXCEPT ![r] =
                      [@ EXCEPT !.pc = "done", !.status = 200, !.handled = TRUE]]
    /\ UNCHANGED <<now, cacheVars, tokenVars, authOthers, serverRev, apiKeyConfig>>

\* the error of express.json() is answered: by errorMiddleware, for which it
\* is no ApiError, or by the framework with the error's own status
ErrorAnswered(r) ==
    /\ inbound[r].pc = "error"
    /\ inbound' = [inbound EXCEPT ![r] =
          [@ EXCEPT !.pc = "done",
                    !.status = IF serverRev = "errors" THEN 500 ELSE 400]]
    /\ UNCHANGED <<now, cacheVars, tokenVars, authOthers, serverRev, apiKeyConfig>>

(***************************************************************************)
(* Indices and the cache entries they are built from, by upstream result   *)
(***************************************************************************)
\* upstream results are numbered as they are fetched
MaxFetches == 3
NoResult == 0
Results == NoResult..MaxFetches

NoFrom == [k \in IndexKeys |-> NoResult]
NoFreshCall == [index |-> Null, pc |-> "idle", returned |-> NoFrom, current |-> TRUE]

FreshIdle ==
    /\ entryOf = NoFrom
    /\ fetched = NoResult
    /\ indexFrom = [i \in Indices |-> [built |-> FALSE, from |-> NoFrom]]
    /\ freshCall = NoFreshCall

\* another caller goes through the cached client for the same resource (as
\* DataService.getRatings does): on a miss, or when forcing a refresh, the
\* upstream result replaces the entry
CallerFetches(key, force) ==
    /\ key \in UNION {SourceKeys(i) : i \in Indices}
    /\ entryOf[key] = NoResult \/ force
    /\ fetched < MaxFetches
    /\ fetched' = fetched + 1
    /\ entryOf' = [entryOf EXCEPT ![key] = fetched + 1]
    /\ UNCHANGED <<now, cacheVars, tokenVars, freshOthers, indexFrom, freshCall>>

\* the TTL of an entry runs out
EntryExpires(key) ==
    /\ entryOf[key] # NoResult
    /\ entryOf' = [entryOf EXCEPT ![key] = NoResult]
    /\ UNCHANGED <<now, cacheVars, tokenVars, freshOthers, fetched, indexFrom, freshCall>>

\* the index a call returns is built from the entries now in the cache
BuiltFromCurrent(from, index) ==
    \A k \in SourceKeys(index) : entryOf[k] # NoResult => from[k] = entryOf[k]

\* this.#index && (await cacheManager.has(CACHE_TYPES.INDEX))
KeepsIndex(index) ==
    indexFrom[index].built /\ entryOf[createKeyOfArgs(index, << >>)] # NoResult

\* ratings() / watched() / favorites() up to the call of the cached client
FreshCallStart(index) ==
    /\ freshCall.pc # "fetching"
    /\ freshCall' =
          IF KeepsIndex(index)
          THEN [NoFreshCall EXCEPT !.index = index, !.pc = "done",
                   !.returned = indexFrom[index].from,
                   !.current = BuiltFromCurrent(indexFrom[index].from, index)]
          ELSE [NoFreshCall EXCEPT !.index = index, !.pc = "fetching"]
    /\ UNCHANGED <<now, cacheVars, tokenVars, freshOthers, entryOf, fetched, indexFrom>>

\* the cached client answers: an entry that is there is returned, a missing
\* one is fetched and stored; the index is built from the answers
FreshCallBuilds ==
    /\ freshCall.pc = "fetching"
    /\ LET index == freshCall.index
           missing == {k \in SourceKeys(index) : entryOf[k] = NoResult}
           entries == [k \in IndexKeys |->
                          IF k \in missing THEN fetched + 1 ELSE entryOf[k]]
           from == [k \in IndexKeys |->
                       IF k \in SourceKeys(index) THEN entries[k] ELSE NoResult]
       IN  /\ missing # {} => fetched < MaxFetches
           /\ fetched' = IF missing = {} THEN fetched ELSE fetched + 1
           /\ entryOf' = entries
           /\ indexFrom' = [indexFrom EXCEPT ![index] = [built |-> TRUE, from |-> from]]
           /\ freshCall' = [freshCall EXCEPT !.pc = "done", !.returned = from,
                                             !.current = TRUE]
    /\ UNCHANGED <<now, cacheVars, tokenVars, freshOthers>>

(***************************************************************************)
(* The service layer works on the responses the cached client returns      *)
(***************************************************************************)
\* revisions of the service layer: "processor" is data-processor.js
\* (getRatings, getEnrichedHistory), "service" is DataService.getHistory
ServiceRevs == {"processor", "service"}

\* the items the upstream holds for a resource
MaxUpstream == 3
\* DEFAULT_PAGE_SIZES.HISTORY, scaled down; DEFAULT_PAGE_SIZES.RATINGS is
\* null
HistoryPageSize == 2
ResponseKeys == {"ratings", "history"}

\* the response object of the upstream client: data is "raw" as fetched
UpstreamResponse(n) ==
    [data |-> "raw", pagination |-> [itemCount |-> n, pageCount |-> 1, limit |-> 0]]

NoResponse == [present |-> FALSE, value |-> UpstreamResponse(0)]

AliasIdle ==
    /\ serviceRev = "processor"
    /\ upstreamItems = 0
    /\ held = [k \in ResponseKeys |-> NoResponse]
    /\ served = NoResponse

\* the cached client: the object held in the memory tier on a hit, else the
\* fresh response, which is stored and returned as the same object
CachedResponse(key) ==
    IF held[key].present THEN held[key].value ELSE UpstreamResponse(upstreamItems)

\* items.slice(startIndex, startIndex + pageSize).length
SliceLength(n, page, pageSize) ==
    Min(Max(n - (page - 1) * pageSize, 0), pageSize)

\* pagination.itemCount = totalItems; pagination.pageCount = ...;
\* pagination.limit = pageSize
ClientSidePagination(pagination, n, page, pageSize) ==
    LET totalItems == SliceLength(n, page, pageSize)
    IN  [pagination EXCEPT !.itemCount = totalItems,
                           !.pageCount = Ceil(totalItems, pageSize),
                           !.limit = pageSize]

\* DataProcessor.getRatings({limit, page}): the pagination object of the
\* response is written when the items are paged client-side
ProcessorGetRatings(limit, page) ==
    /\ serviceRev = "processor"
    /\ LET response == CachedResponse("ratings")
           pageSize == IF Truthy(limit) THEN limit ELSE Undefined
           paged == Truthy(pageSize) /\ (Truthy(limit) \/ page > 1)
           after == IF paged
                    THEN [response EXCEPT !.pagination =
                             ClientSidePagination(@, upstreamItems, page, pageSize)]
                    ELSE response
       IN  /\ held' = [held EXCEPT !["ratings"] = [present |-> TRUE, value |-> after]]
           /\ served' = [present |-> TRUE, value |-> after]
    /\ UNCHANGED <<now, cacheVars, tokenVars, aliasOthers, serviceRev, upstreamItems>>

\* DataProcessor.getEnrichedHistory({limit, page}) without itemId: limit
\* defaults to the page size, so a non-empty history is always paged
ProcessorGetEnrichedHistory(limit, page) ==
    /\ serviceRev = "processor"
    /\ LET response == CachedResponse("history")
           pageSize == IF Truthy(limit) THEN limit ELSE HistoryPageSize
           after == IF upstreamItems > 0
                    THEN [response EXCEPT !.pagination =
                             ClientSidePagination(@, upstreamItems, page, pageSize)]
                    ELSE response
       IN  /\ held' = [held EXCEPT !["history"] = [present |-> TRUE, value |-> after]]
           /\ served' = [present |-> TRUE, value |-> after]
    /\ UNCHANGED <<now, cacheVars, tokenVars, aliasOthers, serviceRev, upstreamItems>>

\* DataService.getHistory: response.data = enrichedData
ServiceGetHistory ==
    /\ serviceRev = "service"
    /\ LET after == [CachedResponse("history") EXCEPT !.data = "enriched"]
       IN  /\ held' = [held EXCEPT !["history"] = [present |-> TRUE, value |-> after]]
           /\ served' = [present |-> TRUE, value |-> after]
    /\ UNCHANGED <<now, cacheVars, tokenVars, aliasOthers, serviceRev, upstreamItems>>

\* the entry expires: the next request fetches
ResponseExpires(key) ==
    /\ held[key].present
    /\ held' = [held EXCEPT ![key] = NoResponse]
    /\ UNCHANGED <<now, cacheVars, tokenVars, aliasOthers, serviceRev, upstreamItems, served>>

(***************************************************************************)
(* Service requests that prime the force-refresh flag                      *)
(***************************************************************************)
\* concurrent service requests
NumForceReqs == 3
ForceReqIds == 1..NumForceReqs
\* wrapped calls of one request (getEnrichedWatchlist: watchlist, history,
\* ratings)
CallsPerRequest == 3

NoForceReq == [pc |-> "idle", wantsForce |-> FALSE, issued |-> 0, forced |-> 0]

ForceIdle ==
    /\ nextCallForced = FALSE
    /\ freqs = [r \in ForceReqIds |-> NoForceReq]

\* `forceRefresh && this.#force()` followed, without a suspension between,
\* by `cachedTraktClient.getX(...)`: #force calls forceRefreshNextCall on the
\* exported client, which throws when that object lacks the private field;
\* the wrapped call reads the flag, resets it and suspends in #cachedRequest
ForceStep(q) ==
    IF q.wantsForce /\ ~HasPrivateFields(Exported)
    THEN [req |-> [q EXCEPT !.pc = "failed"], flag |-> nextCallForced]
    ELSE LET flag == nextCallForced \/ q.wantsForce
         IN  [req |-> [q EXCEPT !.pc = "awaiting", !.issued = @ + 1,
                                !.forced = @ + (IF EffectiveForce(flag, FALSE) THEN 1 ELSE 0)],
              flag |-> FALSE]

\* a service request starts and runs to its first wrapped call
ForceRequestStart(r, wantsForce) ==
    /\ freqs[r].pc = "idle"
    /\ \A o \in ForceReqIds : o < r => freqs[o].pc # "idle"
    /\ LET s == ForceStep([NoForceReq EXCEPT !.wantsForce = wantsForce])
       IN  /\ freqs' = [freqs EXCEPT ![r] = s.req]
           /\ nextCallForced' = s.flag
    /\ UNCHANGED <<now, cacheVars, tokenVars, forceOthers>>

\* the wrapped call resolves; the request goes on to its next wrapped call
\* or returns
ForceCallResolves(r) ==
    /\ freqs[r].pc = "awaiting"
    /\ IF freqs[r].issued = CallsPerRequest
       THEN /\ freqs' = [freqs EXCEPT ![r].pc = "done"]
            /\ UNCHANGED nextCallForced
       ELSE LET s == ForceStep(freqs[r])
            IN  /\ freqs' = [freqs EXCEPT ![r] = s.req]
                /\ nextCallForced' = s.flag
    /\ UNCHANGED <<now, cacheVars, tokenVars, forceOthers>>

(***************************************************************************)
(* The cache key as text                                                   *)
(*                                                                         *)
(* A text is a sequence of pieces; equal sequences are equal strings.      *)
(***************************************************************************)
NoText == << >>
NotPassed == [kind |-> "absent", text |-> NoText, page |-> 0]
NullArg == [kind |-> "null", text |-> NoText, page |-> 0]
UndefinedArg == [kind |-> "undefined", text |-> NoText, page |-> 0]
Str(t) == [kind |-> "string", text |-> t, page |-> 0]
\* a pagination object { page }
Obj(p) == [kind |-> "object", text |-> NoText, page |-> p]

\* search({ query, type, pagination }) of the upstream client
QueryArgs == {NotPassed, Str(<<"a">>), Str(<<"a", "&", "type", "=", "m">>)}
TypeArgs == {NotPassed, NullArg, UndefinedArg, Str(<<"m">>)}
PaginationArgs == {NotPassed, Obj(1), Obj(2)}

IsPassed(entry) == entry[2].kind # "absent"
\* the parameter object of a call, in the order the caller wrote it
ArgBag(t, q, p) ==
    SelectSeq(<< <<"type", t>>, <<"query", q>>, <<"pagination", p>> >>, IsPassed)
ArgBags == {ArgBag(t, q, p) : t \in TypeArgs, q \in QueryArgs, p \in PaginationArgs}

\* .filter(([_, value]) => value !== undefined && value !== null)
IsGiven(entry) == entry[2].kind \notin {"undefined", "null"}

\* `${value}`: a string is itself, a plain object is [object Object]
TemplateText(v) == IF v.kind = "object" THEN <<"[object Object]">> ELSE v.text

\* .map(([key, value]) => `${key}=${value}`).join('&')
RECURSIVE JoinEntries(_)
JoinEntries(entries) ==
    IF entries = << >> THEN NoText
    ELSE LET piece == <<Head(entries)[1], "=">> \o TemplateText(Head(entries)[2])
         IN  IF Len(entries) = 1 THEN piece
             ELSE piece \o <<"&">> \o JoinEntries(Tail(entries))

\* createKey(cacheType, params): the string it returns
createKeyText(cacheType, params) ==
    LET sorted == JoinEntries(SortEntries(SelectSeq(params, IsGiven)))
    IN  IF sorted = NoText THEN <<cacheType>>
        ELSE <<cacheType, "?">> \o sorted

NoTextCall == [bagA |-> << >>, bagB |-> << >>, done |-> FALSE,
               keyA |-> NoText, keyB |-> NoText]
TextCalls == {[NoTextCall EXCEPT !.bagA = a, !.bagB = b] : a, b \in ArgBags}

TextIdle == textCall = NoTextCall

\* #cachedRequest computes the key of two search calls
ApplyCreateKeyText ==
    /\ ~textCall.done
    /\ textCall' = [textCall EXCEPT
          !.done = TRUE,
          !.keyA = createKeyText("search", textCall.bagA),
          !.keyB = createKeyText("search", textCall.bagB)]
    /\ UNCHANGED <<now, cacheVars, tokenVars, textOthers>>

\* time passes
Tick ==
    /\ now < MaxNow
    /\ now' = now + TickMs
    /\ UNCHANGED <<cacheVars, tokenVars, extVars>>

vars == <<now, cacheVars, tokenVars, extVars>>

\* entries a previous run of the process left in node-persist
Preloaded ==
    {[k \in Keys |-> NoItem]} \cup
    {[k \in Keys |-> IF k = q THEN Item("a", StartTime + TickMs) ELSE NoItem] : q \in Keys}

\* the cached client after construction
InitCache(revs) ==
    /\ cacheRev \in revs
    /\ memoryCache = [k \in Keys |-> NoItem]
    /\ diskCache \in (IF cacheRev = "sync" THEN {[k \in Keys |-> NoItem]} ELSE Preloaded)
    /\ pendingWrites = {}
    /\ forceRefresh = FALSE
    /\ primed = FALSE
    /\ calls = [s \in Slots |-> IdleCall]
    /\ last = IdleCall

\* the upstream client after construction: no access token, the refresh
\* token read from the configuration
InitClient(revs) ==
    /\ clientRev \in revs
    /\ accessToken = NoToken
    /\ tokenExpiresAt = Undefined
    /\ refreshToken = FirstGen
    /\ configRefreshToken = FirstGen
    /\ envRefreshToken = FirstGen
    /\ providerGen = FirstGen
    /\ reqs = [r \in ReqIds |-> IdleReq]
    /\ lastIssued = NoToken
    /\ lastRefresh = NoRefresh

\* nothing outside the two clients is in progress
ExtIdle == FuncIdle /\ MgrIdle /\ PageIdle /\ IndexIdle /\ ItemIdle /\ RatingsIdle /\ FlushIdle /\ BuildIdle /\ DurableIdle /\ UrlIdle /\ AuthIdle /\ FreshIdle /\ AliasIdle /\ ForceIdle /\ TextIdle

Init ==
    /\ now = StartTime
    /\ InitCache(CacheRevs)
    /\ InitClient({"final"})
    /\ ExtIdle

Next ==
    \/ \E s \in Slots, req \in Requests, lf \in BOOLEAN : WrappedCall(s, req, lf)
    \/ forceRefreshNextCall
    \/ \E s \in Slots : DiskReadCompletes(s)
    \/ \E s \in Slots, v \in Payloads : UpstreamReturns(s, v)
    \/ \E s \in Slots : UpstreamThrows(s)
    \/ \E w \in pendingWrites : DiskWriteCompletes(w)
    \/ cleanupMemoryCache
    \/ Tick

Spec == Init /\ [][Next]_vars

TokenInit ==
    /\ now = StartTime
    /\ InitCache({"sync"})
    /\ InitClient(ClientRevs)
    /\ ExtIdle

TokenNext ==
    \/ \E r \in ReqIds, kind \in Kinds : StartRequest(r, kind)
    \/ \E r \in ReqIds, status \in Statuses : FetchResponds(r, status)
    \/ \E r \in ReqIds, outcome \in RefreshOutcomes, e \in ExpiresInChoices :
          RefreshCompletes(r, outcome, e)
    \/ Tick

TokenSpec == TokenInit /\ [][TokenNext]_vars

(***************************************************************************)
(* Claims about the cached client (checked under Spec)                     *)
(***************************************************************************)
\* the TTL the claim expects for a cache type, in seconds
ConfiguredTtl(type) ==
    IF DEFAULT_TTL(cacheRev, type) # Undefined THEN DEFAULT_TTL(cacheRev, type) ELSE 300

\* C1: a wrapped call without force-refresh that finds no unexpired entry
\* for its key in either tier calls the upstream method exactly once with
\* the call's parameters, stores the fresh result under the key with the
\* TTL configured for the cache type (300 s when the type has none) and
\* returns the fresh result.
C1_MissFetchesOnce ==
    (last.pc = "done" /\ ~last.force /\ last.readDone /\ ~last.readHit) =>
        /\ last.upstream = 1
        /\ last.upParams = last.params
        /\ ~last.threw =>
              /\ last.outcome = "value"
              /\ last.result = last.fetched
              /\ last.storedValue = last.fetched
              /\ last.storedTtlMs = 1000 * ConfiguredTtl(CacheTypeOf(last.method))

\* C2: a wrapped call without force-refresh whose key has an unexpired
\* entry returns the cached value and makes no upstream call.
C2_HitServedFromCache ==
    /\ (last.pc = "done" /\ ~last.force /\ last.readHit) =>
          /\ last.outcome = "value"
          /\ last.result = last.readValue
          /\ last.upstream = 0
    /\ \A s \in Slots : (~calls[s].force /\ calls[s].readHit) => calls[s].upstream = 0

C2_Witness ==
    /\ last.pc = "done" /\ ~last.force /\ last.readHit
    /\ last.result = "b" /\ last.upstream = 0

\* C3: after forceRefreshNextCall() on the exported client exactly the next
\* wrapped call skips the cache read; the flag is reset by that call and the
\* call after it reads the cache unless it passes forceRefresh itself.
C3_SingleShotForce ==
    /\ last.pc = "done" =>
          /\ last.primedBefore => ~last.readDone
          /\ (~last.primedBefore /\ ~last.local) => last.readDone
    /\ ~primed => ~forceRefresh

\* C4: when a forced call's live upstream call throws and a cached value
\* exists for the key, the wrapper returns that cached value.
C4_StaleOnError ==
    (last.pc = "done" /\ last.force /\ last.threw /\ last.staleDone /\ last.staleHit) =>
        /\ last.outcome = "value"
        /\ last.result = last.staleValue

C4_Witness ==
    /\ last.pc = "done" /\ last.force /\ last.threw /\ last.staleHit
    /\ last.outcome = "value" /\ last.result = "b"

\* C5: when the live upstream call throws and no cached value exists for
\* the key (forced or not) the wrapper propagates the error; it never
\* returns null or a substitute as if the call had succeeded.
C5_ErrorPropagates ==
    (last.pc = "done" /\ last.threw /\ ~last.staleHit) => last.outcome = "error"


(***************************************************************************)
(* Claims about the upstream client (checked under TokenSpec)              *)
(***************************************************************************)
\* the calls that have sent a resource request
Sent == {r \in ReqIds : reqs[r].attempts > 0}

\* C6: every resource request sent upstream, the first page of a paginated
\* request included, is sent after ensureTokenValid has run and carries an
\* access token that was present and unexpired when it was sent.
C6_ValidTokenOnEveryRequest ==
    \A r \in Sent :
        /\ reqs[r].ensured
        /\ reqs[r].sentToken # NoToken
        /\ reqs[r].sentFresh

\* C7: a call answered 401 refreshes once and is re-issued exactly once; a
\* second 401 propagates, so no call sends more than two requests or makes
\* more than one refresh because of a 401.
C7_RetryOnceOn401 ==
    \A r \in ReqIds :
        /\ reqs[r].attempts <= 2
        /\ reqs[r].retryRefreshes <= 1

\* C8: at most one OAuth refresh is in flight at any time, and no two
\* refresh requests in flight carry the same refresh token.
C8_SingleRefreshInFlight ==
    \A r1, r2 \in ReqIds :
        (reqs[r1].pc = "refreshing" /\ reqs[r2].pc = "refreshing") => r1 = r2

\* C9: when a refresh fails, the access token, the refresh token, the expiry
\* instant and the persisted REFRESH_TOKEN are what they were before it.
C9_FailedRefreshMutatesNothing ==
    lastRefresh.status = "failed" => ~lastRefresh.mutated

\* C10: after a successful refresh the client holds the tokens the provider
\* returned with expiry now + expires_in and the persisted REFRESH_TOKEN
\* equals the in-memory refresh token; every later refresh request sends the
\* refresh token returned by the most recent successful refresh.
C10_RotatedAndPersisted ==
    /\ lastRefresh.status = "ok" => lastRefresh.postOk
    /\ \A r \in ReqIds :
          reqs[r].pc = "refreshing" => reqs[r].sentRefresh = reqs[r].expectRefresh

(***************************************************************************)
(* The pure functions on their own                                         *)
(***************************************************************************)
FuncInit ==
    /\ now = StartTime
    /\ InitCache({"sync"})
    /\ InitClient({"final"})
    /\ MgrIdle
    /\ PageIdle
    /\ IndexIdle
    /\ ItemIdle
    /\ RatingsIdle
    /\ FlushIdle
    /\ BuildIdle
    /\ DurableIdle
    /\ UrlIdle
    /\ AuthIdle
    /\ FreshIdle
    /\ AliasIdle
    /\ ForceIdle
    /\ TextIdle
    /\ \/ keyCall \in KeyCalls \ {NoKeyCall} /\ ttlCall = NoTtlCall
       \/ keyCall = NoKeyCall /\ ttlCall \in TtlCalls

FuncNext == ApplyCreateKey \/ ApplyActualTtl

FuncSpec == FuncInit /\ [][FuncNext]_vars

\* the entries of a bag that carry a value, whatever their order
SetEntries(bag) == {bag[i] : i \in {j \in DOMAIN bag : IsSet(bag[j])}}

\* C14: for one cache type createKey returns the same key for two parameter
\* bags that differ only in the insertion order of their entries or in
\* entries whose value is null or undefined.
C14_KeyDeterminism ==
    (keyCall.done /\ SetEntries(keyCall.bagA) = SetEntries(keyCall.bagB)) =>
        /\ keyCall.keyA = keyCall.keyB
        /\ keyCall.listA = keyCall.listB

C14_Witness ==
    /\ keyCall.done
    /\ Len(keyCall.bagA) = 2 /\ Len(keyCall.bagB) = 2
    /\ IsSet(keyCall.bagA[1]) /\ IsSet(keyCall.bagA[2])
    /\ keyCall.bagA[1] = keyCall.bagB[2] /\ keyCall.bagA[2] = keyCall.bagB[1]
    /\ keyCall.keyA = keyCall.keyB
    /\ Len(keyCall.keyA) = 3

\* C15: for every nominal TTL t > 0 and every random draw, set() with
\* useFuzzyTtl stores an effective TTL inside [0.9 t, 1.1 t]; without
\* useFuzzyTtl the effective TTL is exactly t.
C15_FuzzyTtlWithinTenPercent ==
    ttlCall.done =>
        IF ttlCall.fuzzy
        THEN /\ 10 * ttlCall.actualTtl >= 9 * ttlCall.ttl
             /\ 10 * ttlCall.actualTtl <= 11 * ttlCall.ttl
        ELSE ttlCall.actualTtl = ttlCall.ttl

(***************************************************************************)
(* The cache manager on its own                                            *)
(***************************************************************************)
\* the datum a previous run of the process left behind, one second of its
\* TTL remaining
LeftOnDisk == {NoEntry, Entry("a", StartTime + 1000, 0)}

MgrInit ==
    /\ now = StartTime
    /\ InitCache({"sync"})
    /\ InitClient({"final"})
    /\ FuncIdle
    /\ PageIdle
    /\ IndexIdle
    /\ ItemIdle
    /\ RatingsIdle
    /\ FlushIdle
    /\ BuildIdle
    /\ DurableIdle
    /\ UrlIdle
    /\ AuthIdle
    /\ FreshIdle
    /\ AliasIdle
    /\ ForceIdle
    /\ TextIdle
    /\ mgrRev \in MgrRevs
    /\ memItem = NoEntry
    /\ diskItem \in LeftOnDisk
    /\ tasks = [t \in TaskIds |-> IdleTask]
    /\ setSeq = 0
    /\ written = NothingWritten
    /\ restored = NothingRestored
    /\ clobbered = FALSE

MgrNext ==
    \/ \E t \in TaskIds : GetStart(t)
    \/ \E t \in TaskIds : GetItemReturns(t)
    \/ \E t \in TaskIds : GetDatumReturns(t)
    \/ \E t \in TaskIds, v \in Payloads, ttl \in TtlChoices : SetStart(t, v, ttl)
    \/ \E t \in TaskIds : SetItemCompletes(t)
    \/ \E t \in TaskIds : DeleteStart(t)
    \/ \E t \in TaskIds : RemoveItemCompletes(t)
    \/ MgrCleanup
    \/ Elapse

MgrSpec == MgrInit /\ [][MgrNext]_vars

\* C11: once set(key, value, {ttl}) has been called, also before its durable
\* write completes, get(key) returns value until the entry expires or the
\* key is written or deleted again: memory holds the value of the latest set.
C11_GetAfterSetHits ==
    (written.live /\ (~Truthy(written.expiresAt) \/ now < written.expiresAt)) =>
        /\ MemoryValid(memItem, now)
        /\ memItem.value = written.value

\* C12: the memory copy that get makes of a durable hit expires no later
\* than the durable entry: it has an expiry, at or before the datum's.
C12_CopyExpiresWithSource ==
    restored.done =>
        /\ Truthy(restored.memExpiresAt)
        /\ Truthy(restored.diskExpiresAt) => restored.memExpiresAt <= restored.diskExpiresAt

\* C13: the memory copy is at least as fresh as the durable copy, and a get
\* that copies a durable read to memory never replaces a value a later set
\* has written there.
C13_MemoryAtLeastAsFresh ==
    /\ ~clobbered
    /\ (MemoryValid(memItem, now) /\ DatumLive(diskItem, now)) => memItem.ver >= diskItem.ver

(***************************************************************************)
(* Paginated requests on their own                                         *)
(***************************************************************************)
\* the collections the upstream API can hold: pageCount pages, the last one
\* holding at least one item
Collections ==
    {[pageCount |-> n, itemCount |-> k] :
        n \in 1..MaxPageCount, k \in 1..(MaxPageCount * PageSize)} \cap
    {c \in [pageCount : 1..MaxPageCount, itemCount : 1..(MaxPageCount * PageSize)] :
        Ceil(c.itemCount, PageSize) = c.pageCount}

PageInit ==
    /\ now = StartTime
    /\ InitCache({"sync"})
    /\ InitClient({"final"})
    /\ FuncIdle
    /\ MgrIdle
    /\ IndexIdle
    /\ ItemIdle
    /\ RatingsIdle
    /\ FlushIdle
    /\ BuildIdle
    /\ DurableIdle
    /\ UrlIdle
    /\ AuthIdle
    /\ FreshIdle
    /\ AliasIdle
    /\ ForceIdle
    /\ TextIdle
    /\ pageRev \in PageRevs
    /\ collection \in Collections
    /\ pcall = IdlePagedCall
    /\ preq = [p \in Pages |-> NoPageRequest]

PageNext ==
    \/ \E limit \in Limits, maxPages \in MaxPagesChoices, autoPaginate \in BOOLEAN :
          StartPaginated(limit, maxPages, autoPaginate)
    \/ \E p \in Pages : PageRespondsOk(p)
    \/ \E p \in Pages, status \in Statuses \ {200}, refreshOk \in BOOLEAN :
          PageRespondsError(p, status, refreshOk)

PageSpec == PageInit /\ [][PageNext]_vars

\* the first n items of the upstream collection, in upstream order
FirstItems(n) == [i \in 1..n |-> UpstreamItem(i)]

\* an auto-paginated call with an item limit has returned a value
LimitedCallReturned ==
    /\ pcall.pc = "done"
    /\ pcall.outcome = "value"
    /\ pcall.autoPaginate
    /\ pcall.limit > 0

\* C16: an auto-paginated request with item limit L over a collection of
\* `total` items returns exactly the first min(L, total) upstream items, in
\* upstream order
C16_FirstLItems ==
    LimitedCallReturned =>
        pcall.data = FirstItems(Min(pcall.limit, collection.itemCount))

\* the last page an item limit of L asks for: min(pageCount, ceil(L / pageSize))
LastPageFor(L) == Min(collection.pageCount, Ceil(L, PageSize))

RECURSIVE ItemsOfPages(_)
ItemsOfPages(n) == IF n = 0 THEN << >> ELSE ItemsOfPages(n - 1) \o PageData(n)

\* C18: whatever the order in which the pages 2..N were answered, the combined
\* result of an auto-paginated request lists the items of page 1, then of page
\* 2, ..., then of page N
C18_PageOrder ==
    (pcall.pc = "done" /\ pcall.outcome = "value" /\ pcall.autoPaginate) =>
        pcall.data = sliceData(ItemsOfPages(pcall.untilPage), pcall.limit)

\* C19: a non-2xx answer other than the first 401 of a request makes the call
\* fail with an error that carries the status, the provider's error code and
\* its description; when a page of an auto-paginated call fails the call
\* fails, returns no data and nothing is stored in the cache
C19_FailsWhole ==
    \A p \in Pages :
        /\ preq[p].non2xx - (IF preq[p].first401 THEN 1 ELSE 0) >= 1
              => preq[p].pc = "failed"
        /\ preq[p].pc = "failed" =>
              /\ pcall.pc = "done"
              /\ pcall.outcome = "error"
              /\ pcall.data = << >>
              /\ ~pcall.stored
              /\ pcall.error.status \in Statuses \ {200}
              /\ pcall.error.error = ErrorBody(pcall.error.status).error
              /\ pcall.error.description =
                    ErrorBody(pcall.error.status).error_description

(***************************************************************************)
(* The indexed cache on its own                                            *)
(***************************************************************************)
IndexInit ==
    /\ now = StartTime
    /\ InitCache({"sync"})
    /\ InitClient({"final"})
    /\ FuncIdle
    /\ MgrIdle
    /\ PageIdle
    /\ IndexIdle
    /\ ItemIdle
    /\ RatingsIdle
    /\ FlushIdle
    /\ BuildIdle
    /\ DurableIdle
    /\ UrlIdle
    /\ AuthIdle
    /\ FreshIdle
    /\ AliasIdle
    /\ ForceIdle
    /\ TextIdle

IndexNext ==
    \/ \E index \in Indices : IndexCallStart(index)
    \/ IndexCallRebuilds
    \/ IndexCallFails
    \/ \E key \in IndexKeys : SourceExpires(key)

IndexSpec == IndexInit /\ [][IndexNext]_vars

\* C20: a call of ratings(), watched() or favorites() that finds its index
\* built and the cache entries of the index's source unexpired returns the
\* existing index and does not call the cached client; the index is rebuilt
\* only when it was not built or its source had expired
C20_RebuildOnlyWhenStale ==
    (indexCall.pc = "done" /\ indexCall.hadIndex /\ indexCall.sourceValid) =>
        /\ indexCall.outcome = "existing"
        /\ indexCall.clientCalls = 0

(***************************************************************************)
(* Keys, enrichment and flattening of one record                           *)
(***************************************************************************)
ItemInit ==
    /\ now = StartTime
    /\ InitCache({"sync"})
    /\ InitClient({"final"})
    /\ FuncIdle
    /\ MgrIdle
    /\ PageIdle
    /\ IndexIdle
    /\ RatingsIdle
    /\ FlushIdle
    /\ BuildIdle
    /\ DurableIdle
    /\ UrlIdle
    /\ AuthIdle
    /\ FreshIdle
    /\ AliasIdle
    /\ ForceIdle
    /\ TextIdle
    /\ itemCall \in ItemCalls

ItemNext ==
    \/ ApplyItemKey
    \/ ApplyEnrichItem
    \/ ApplyFlattenItem
    \/ ApplyBuildIndex

ItemSpec == ItemInit /\ [][ItemNext]_vars

\* the record carries the payload of its type with a trakt id
Joinable(item) ==
    item.type # Null /\ item.type \in item.payloads /\ item.ids = "full"

\* C23: key derivation gives "{type}:{trakt id}" for a record that carries the
\* payload of its type with ids; for a record whose payload or identifier is
\* missing it gives no key, and enriching such a record leaves the enrichment
\* fields empty and does not throw
C23_KeyOrNoKey ==
    /\ (itemCall.op = "key" /\ itemCall.done /\ Joinable(itemCall.item)) =>
          /\ itemCall.key = KeyResult(ItemKey(itemCall.item.type, itemCall.item.trakt))
          /\ itemCall.created = itemCall.key
    /\ (itemCall.op = "key" /\ itemCall.done /\ itemCall.item.type # Null
            /\ ~Joinable(itemCall.item)) =>
          /\ itemCall.key.outcome = "nokey"
          /\ itemCall.created.outcome = "nokey"
    /\ (itemCall.op = "enrich" /\ itemCall.done /\ ~Joinable(itemCall.item)) =>
          /\ itemCall.enriched.outcome = "value"
          /\ itemCall.enriched.last_watched_at = UndefinedValue
          /\ itemCall.enriched.favorite = UndefinedValue

\* what the three indices hold under the key of the record
StoredUnder(index) ==
    MapGet(itemCall.indexed[index],
           ItemKey(itemCall.item.type, itemCall.item.trakt))

\* C25: enrichItem attaches to a record with key k exactly what the indices
\* hold under k: the rating, plays (0 when k is not in the watched index),
\* last_watched_at and the rewatch start, favorite = true with its note;
\* favorite is true or absent, and the record itself is carried over unchanged
C25_EnrichAttachesIndexData ==
    (itemCall.op = "enrich" /\ itemCall.done /\ Joinable(itemCall.item)) =>
        /\ itemCall.enriched.outcome = "value"
        /\ itemCall.enriched.base = itemCall.item
        /\ itemCall.kind # "ratings" =>
              itemCall.enriched.rating = StoredUnder("ratings").rating
        /\ itemCall.enriched.plays =
              (IF StoredUnder("watched").present
               THEN StoredUnder("watched").plays ELSE "0")
        /\ itemCall.enriched.last_watched_at = StoredUnder("watched").last_watched_at
        /\ itemCall.enriched.rewatch_started = StoredUnder("watched").reset_at
        /\ itemCall.enriched.favorite \in {"true", UndefinedValue}
        /\ itemCall.enriched.favorite = "true" <=> StoredUnder("favorites").present
        /\ itemCall.enriched.favorite_note = StoredUnder("favorites").notes

\* the names of the fields of a flat record, in order
FieldNames(fields) == [i \in DOMAIN fields |-> fields[i][1]]
FieldValue(fields, name) ==
    LET i == CHOOSE j \in DOMAIN fields : fields[j][1] = name IN fields[i][2]

\* the record matches the branch of its type
BranchMatches(item) ==
    \/ item.type \in {"movie", "show"} /\ item.type \in item.payloads
    \/ item.type = "season" /\ {"season", "show"} \subseteq item.payloads
    \/ item.type = "episode" /\ {"episode", "show"} \subseteq item.payloads

\* the enrichment fields, in the order the flat record ends with
EnrichmentNames(kind) ==
    IF kind = "ratings"
    THEN <<"rating", "rated_at", "plays", "last_watched_at", "favorite",
           "favorite_note">>
    ELSE <<"rating", "plays", "watched_at", "last_watched_at", "favorite",
           "favorite_note">>

\* C26: flattenItem emits type first, then the fields of the record's type
\* (movie/show: title, year; season: title, show_title, show_year, season;
\* episode: show_title, show_year, episode_title, episode_number, season), then
\* the enrichment fields, always last; the season title is "{show title} -
\* Season {n}", plays is 0 and rating undefined when the record carries none
C26_FlatFieldOrder ==
    (itemCall.op = "flatten" /\ itemCall.done /\ BranchMatches(itemCall.item)) =>
        LET f == itemCall.flattened.fields
            t == itemCall.item.type
        IN /\ itemCall.flattened.outcome = "value"
           /\ FieldNames(f) =
                 <<"type">> \o
                 (CASE t \in {"movie", "show"} -> <<"title", "year">>
                    [] t = "season" -> <<"title", "show_title", "show_year", "season">>
                    [] t = "episode" -> <<"show_title", "show_year", "episode_title",
                                          "episode_number", "season">>)
                 \o EnrichmentNames(itemCall.kind)
           /\ t = "season" =>
                 FieldValue(f, "title") =
                    <<"show", "title", " - Season ", "season", "number">>
           /\ itemCall.enrichment.plays = UndefinedValue =>
                 FieldValue(f, "plays") = <<"0">>
           /\ FieldValue(f, "rating") = <<itemCall.enrichment.rating>>

\* an episode of a show was flattened by the history transformer
C26_Witness ==
    /\ itemCall.op = "flatten" /\ itemCall.done /\ itemCall.kind = "history"
    /\ itemCall.item.type = "episode"
    /\ itemCall.item.payloads = {"episode", "show"}
    /\ itemCall.enrichment.plays = UndefinedValue
    /\ Len(itemCall.flattened.fields) = 12

\* C27: flattenItem does not throw on a partial or malformed record: for any
\* type tag and any combination of payloads it returns a flat record with type
\* and the enrichment fields, and without the fields of a branch that did not
\* match
C27_FlattenNeverThrows ==
    (itemCall.op = "flatten" /\ itemCall.done) =>
        /\ itemCall.flattened.outcome = "value"
        /\ Head(itemCall.flattened.fields) = <<"type", <<itemCall.item.type>> >>
        /\ ~BranchMatches(itemCall.item) =>
              FieldNames(itemCall.flattened.fields) =
                 <<"type">> \o EnrichmentNames(itemCall.kind)

\* an episode record without its show was flattened
C27_Witness ==
    /\ itemCall.op = "flatten" /\ itemCall.done
    /\ itemCall.item.type = "episode"
    /\ itemCall.item.payloads = {"episode"}
    /\ itemCall.flattened.outcome = "value"
    /\ Len(itemCall.flattened.fields) = 7

\* the latest watched_at among the items of the list with this id
LatestWatch(list, id) ==
    LET times == {list[i].watched_at : i \in {j \in DOMAIN list : list[j].id = id}}
    IN CHOOSE t \in times : \A u \in times : u <= t

\* C24: for any list of history items in any order, the index built from it
\* holds under each composite key the latest watched_at among the items that
\* share the key, which is what enrichment attaches
C24_RecencyWins ==
    (itemCall.op = "index" /\ itemCall.done) =>
        \A i \in DOMAIN itemCall.list :
            LET id == itemCall.list[i].id
            IN /\ itemCall.watchedIndex[id] = LatestWatch(itemCall.list, id)
               /\ itemCall.historyMap[id] = LatestWatch(itemCall.list, id)

(***************************************************************************)
(* Ratings requests on their own                                           *)
(***************************************************************************)
RatingsInit ==
    /\ now = StartTime
    /\ InitCache({"sync"})
    /\ InitClient({"final"})
    /\ FuncIdle
    /\ MgrIdle
    /\ PageIdle
    /\ IndexIdle
    /\ ItemIdle
    /\ FlushIdle
    /\ BuildIdle
    /\ DurableIdle
    /\ UrlIdle
    /\ AuthIdle
    /\ FreshIdle
    /\ AliasIdle
    /\ ForceIdle
    /\ TextIdle
    /\ ratingsCall \in RatingsCalls

RatingsNext == ApplyGetRatings

RatingsSpec == RatingsInit /\ [][RatingsNext]_vars

\* the items of the request's type with at least the minimum rating
Qualifying(c) ==
    SelectSeq(c.list, LAMBDA i :
        /\ itemTypeMatchesFilter(i.type, c.type)
        /\ c.minRating # Undefined => i.rating >= c.minRating)

\* C28: a ratings request with a minimum rating, a type filter and limit L,
\* the other parameters at their defaults, returns the L highest-rated items
\* among those of the type with at least that rating, and pagination.itemCount
\* is the number of items that pass the filters
C28_TopRatedAndItemCount ==
    (ratingsCall.done /\ ratingsCall.sortBy = "rated_at"
        /\ ~ratingsCall.includeUnwatched) =>
        LET q == Qualifying(ratingsCall)
            d == ratingsCall.data
        IN /\ ratingsCall.itemCount = Len(q)
           /\ Len(d) = Min(ratingsCall.limit, Len(q))
           /\ \A i \in DOMAIN d : \E j \in DOMAIN q : q[j] = d[i]
           /\ \A i \in DOMAIN d, j \in DOMAIN q :
                 (\A k \in DOMAIN d : d[k] # q[j]) => q[j].rating <= d[i].rating

(***************************************************************************)
(* flushType on its own                                                    *)
(***************************************************************************)
FlushInit ==
    /\ now = StartTime
    /\ InitCache({"sync"})
    /\ InitClient({"final"})
    /\ FuncIdle
    /\ MgrIdle
    /\ PageIdle
    /\ IndexIdle
    /\ ItemIdle
    /\ RatingsIdle
    /\ FlushIdle
    /\ BuildIdle
    /\ DurableIdle
    /\ UrlIdle
    /\ AuthIdle
    /\ FreshIdle
    /\ AliasIdle
    /\ ForceIdle
    /\ TextIdle

FlushNext ==
    \/ \E key \in FlushKeys, ttl \in {Undefined, 1} : FlushSet(key, ttl)
    \/ \E key \in FlushKeys : FlushSetItemCompletes(key)
    \/ \E key \in FlushKeys : FlushTtlPasses(key)
    \/ \E cacheType \in FlushTypes : FlushTypeStart(cacheType)
    \/ FlushTypeStep
    \/ FlushTypeReturns

FlushSpec == FlushInit /\ [][FlushNext]_vars

\* C29: after flushType(T) has resolved no key of cache type T can be read
\* from the memory cache or from the storage, only keys of type T were
\* removed, and the count returned is the number of keys removed
C29_FlushRemovesType ==
    flush.pc = "done" =>
        /\ \A k \in FlushKeys :
              StartsWith(k, flush.cacheType) =>
                  flushMemory[k] = "none" /\ ~flushDisk[k]
        /\ \A k \in flush.removed : StartsWith(k, flush.cacheType)
        /\ flush.count = Cardinality(flush.removed)

(***************************************************************************)
(* Concurrent enrichment passes on their own                               *)
(***************************************************************************)
BuildInit ==
    /\ now = StartTime
    /\ InitCache({"sync"})
    /\ InitClient({"final"})
    /\ FuncIdle
    /\ MgrIdle
    /\ PageIdle
    /\ IndexIdle
    /\ ItemIdle
    /\ RatingsIdle
    /\ FlushIdle
    /\ BuildIdle
    /\ DurableIdle
    /\ UrlIdle
    /\ AuthIdle
    /\ FreshIdle
    /\ AliasIdle
    /\ ForceIdle
    /\ TextIdle

BuildNext ==
    \/ \E p \in PassIds, hitRatings \in BOOLEAN, hitFavorites \in BOOLEAN :
          StartPass(p, hitRatings, hitFavorites)
    \/ \E p \in PassIds, index \in Indices : IndexFetchReturns(p, index)
    \/ \E p \in PassIds, queryType \in WatchTypes : WatchedFetchReturns(p, queryType)
    \/ \E p \in PassIds, index \in Indices : IndexFetchFails(p, index)
    \/ \E p \in PassIds : EnrichRecords(p)
    \/ \E p \in PassIds : PassFails(p)

BuildSpec == BuildInit /\ [][BuildNext]_vars

\* C21: a request whose all() has resolved enriches against complete
\* indices: the watched Map it received holds the items of all three watched
\* fetches, whatever other requests are building at the time
C21_NoPartialIndex ==
    \A p \in PassIds :
        passes[p].pc = "enriched" => passes[p].observed = WatchTypes

\* C22: the three builds of a pass are started together, records are enriched
\* only after all three have completed, and a pass one of whose builds failed
\* enriches nothing and fails
C22_BarrierBeforeEnrich ==
    \A p \in PassIds :
        /\ (\E i \in Indices : passes[p].builds[i].pc # "idle") =>
              \A i \in Indices : passes[p].builds[i].pc # "idle"
        /\ passes[p].pc = "enriched" =>
              \A i \in Indices : passes[p].builds[i].pc = "done"
        /\ (\E i \in Indices : passes[p].builds[i].pc = "failed") =>
              passes[p].pc \in {"building", "failed"}

\* a pass enriched its records after fetching all three indices itself
C22_Witness ==
    \E p \in PassIds :
        /\ passes[p].pc = "enriched"
        /\ \A i \in Indices : passes[p].builds[i].got = p

(***************************************************************************)
(* Cached requests over a failing durable tier on their own                *)
(***************************************************************************)
DurableInit ==
    /\ now = StartTime
    /\ InitCache({"sync"})
    /\ InitClient({"final"})
    /\ FuncIdle
    /\ MgrIdle
    /\ PageIdle
    /\ IndexIdle
    /\ ItemIdle
    /\ RatingsIdle
    /\ FlushIdle
    /\ BuildIdle
    /\ UrlIdle
    /\ AuthIdle
    /\ FreshIdle
    /\ AliasIdle
    /\ ForceIdle
    /\ TextIdle
    /\ tierCall \in TierCalls

DurableNext ==
    \/ \E force \in BOOLEAN, upstreamOk \in BOOLEAN, readFails \in BOOLEAN :
          TierCallStart(force, upstreamOk, readFails)
    \/ \E readFails \in BOOLEAN : TierReadSettles(readFails)
    \/ \E writeFails \in BOOLEAN : TierFetchReturns(writeFails)
    \/ \E writeFails \in BOOLEAN : TierWriteSettles(writeFails)
    \/ \E readFails \in BOOLEAN : TierFetchThrows(readFails)

DurableSpec == DurableInit /\ [][DurableNext]_vars

\* C30: a request during which a storage read or write failed, and for which
\* the memory tier held the value or the upstream fetch succeeds, returns the
\* memory value or the fresh upstream result
C30_DurableBestEffort ==
    (/\ tierCall.pc = "done"
     /\ tierCall.readFailed \/ tierCall.writeFailed
     /\ tierCall.memoryHeld \/ tierCall.upstreamOk)
        => tierCall.outcome \in {"memory", "fresh"}

(***************************************************************************)
(* #buildUrl on its own                                                    *)
(***************************************************************************)
UrlInit ==
    /\ now = StartTime
    /\ InitCache({"sync"})
    /\ InitClient({"final"})
    /\ FuncIdle
    /\ MgrIdle
    /\ PageIdle
    /\ IndexIdle
    /\ ItemIdle
    /\ RatingsIdle
    /\ FlushIdle
    /\ BuildIdle
    /\ DurableIdle
    /\ AuthIdle
    /\ FreshIdle
    /\ AliasIdle
    /\ ForceIdle
    /\ TextIdle
    /\ urlCall \in UrlCalls

UrlNext == ApplyBuildUrl

UrlSpec == UrlInit /\ [][UrlNext]_vars

\* the parameters that are neither null nor undefined
GivenParams(params) ==
    LET Given(p) == p[2] # Null /\ p[2] # UndefinedValue
    IN  SelectSeq(params, Given)

PlaceholderNames(template) ==
    {template[i].text : i \in {j \in DOMAIN template : template[j].kind = "ph"}}

\* the template with each placeholder that has a given parameter replaced by
\* the parameter's value and every other placeholder left out
ResolvedPath(template, params) ==
    LET given == GivenParams(params)
        Has(name) == \E i \in DOMAIN given : given[i][1] = name
        ValueOf(name) == given[CHOOSE i \in DOMAIN given : given[i][1] = name][2]
        Stays(seg) == seg.kind = "lit" \/ Has(seg.text)
        kept == SelectSeq(template, Stays)
    IN  [i \in DOMAIN kept |->
            IF kept[i].kind = "lit" THEN kept[i].text ELSE ValueOf(kept[i].text)]

NonEmpty(text) == text # ""

\* C31: the path built is the template with the given path parameters
\* substituted, unresolved placeholders gone with their slash and runs of
\* slashes collapsed; the query holds every other given parameter, and null
\* or undefined parameters appear nowhere
C31_BuildUrl ==
    urlCall.done =>
        LET template == urlCall.template
            params == urlCall.params
            expected == ResolvedPath(template, params)
            IsQuery(p) == p[1] \notin PlaceholderNames(template)
            path == urlCall.url.path
        IN  /\ SelectSeq(path, NonEmpty) = SelectSeq(expected, NonEmpty)
            /\ \A i \in 1..(Len(path) - 1) : path[i] # ""
            /\ Len(path) > 0 /\ path[Len(path)] = "" =>
                  Len(expected) > 0 /\ expected[Len(expected)] = ""
            /\ urlCall.url.query = SelectSeq(GivenParams(params), IsQuery)

\* a call that leaves out the first path parameter and gives the second
C31_Witness ==
    /\ urlCall.done
    /\ Len(urlCall.template) = 5
    /\ urlCall.params[1][2] = Null
    /\ urlCall.params[2][2] = "v"
    /\ urlCall.url.path = <<"users", "me", urlCall.template[3].text, "v">>

(***************************************************************************)
(* The middleware chain on its own                                         *)
(***************************************************************************)
AuthInit ==
    /\ now = StartTime
    /\ InitCache({"sync"})
    /\ InitClient({"final"})
    /\ FuncIdle
    /\ MgrIdle
    /\ PageIdle
    /\ IndexIdle
    /\ ItemIdle
    /\ RatingsIdle
    /\ FlushIdle
    /\ BuildIdle
    /\ DurableIdle
    /\ UrlIdle
    /\ FreshIdle
    /\ AliasIdle
    /\ ForceIdle
    /\ TextIdle
    /\ serverRev \in ServerRevs
    /\ apiKeyConfig \in ApiKeys
    /\ inbound = [r \in InboundIds |-> NoInbound]

AuthNext ==
    \/ \E r \in InboundIds, header \in HeaderValues, body \in Bodies : Arrive(r, header, body)
    \/ \E r \in InboundIds : ParseBody(r)
    \/ \E r \in InboundIds : Auth(r)
    \/ \E r \in InboundIds : RouteHandler(r)
    \/ \E r \in InboundIds : ErrorAnswered(r)

AuthSpec == AuthInit /\ [][AuthNext]_vars

\* the header is absent or differs from the configured key
BadKey(r) ==
    inbound[r].header = UndefinedValue \/ inbound[r].header # apiKeyConfig

FreshInit ==
    /\ now = StartTime
    /\ InitCache({"sync"})
    /\ InitClient({"final"})
    /\ FuncIdle
    /\ MgrIdle
    /\ PageIdle
    /\ IndexIdle
    /\ ItemIdle
    /\ RatingsIdle
    /\ FlushIdle
    /\ BuildIdle
    /\ DurableIdle
    /\ UrlIdle
    /\ AuthIdle
    /\ FreshIdle
    /\ AliasIdle
    /\ ForceIdle
    /\ TextIdle

FreshNext ==
    \/ \E key \in IndexKeys, force \in BOOLEAN : CallerFetches(key, force)
    \/ \E key \in IndexKeys : EntryExpires(key)
    \/ \E index \in Indices : FreshCallStart(index)
    \/ FreshCallBuilds

FreshSpec == FreshInit /\ [][FreshNext]_vars

\* C33: the index a call of ratings(), watched() or favorites() returns is
\* built from the results that are in the cache entries of its source at
\* that time, whoever fetched them
C33_IndexTracksSource ==
    freshCall.pc = "done" => freshCall.current

(***************************************************************************)
(* Service requests over cached responses on their own                     *)
(***************************************************************************)
AliasInit ==
    /\ now = StartTime
    /\ InitCache({"sync"})
    /\ InitClient({"final"})
    /\ FuncIdle
    /\ MgrIdle
    /\ PageIdle
    /\ IndexIdle
    /\ ItemIdle
    /\ RatingsIdle
    /\ FlushIdle
    /\ BuildIdle
    /\ DurableIdle
    /\ UrlIdle
    /\ AuthIdle
    /\ FreshIdle
    /\ ForceIdle
    /\ TextIdle
    /\ serviceRev \in ServiceRevs
    /\ upstreamItems \in 0..MaxUpstream
    /\ held = [k \in ResponseKeys |-> NoResponse]
    /\ served = NoResponse

AliasNext ==
    \/ \E limit \in {Undefined} \cup (1..HistoryPageSize), page \in 1..2 :
          ProcessorGetRatings(limit, page)
    \/ \E limit \in {Undefined} \cup (1..HistoryPageSize), page \in 1..2 :
          ProcessorGetEnrichedHistory(limit, page)
    \/ ServiceGetHistory
    \/ \E key \in ResponseKeys : ResponseExpires(key)

AliasSpec == AliasInit /\ [][AliasNext]_vars

\* C34: whatever requests the service layer has served, the response held in
\* the cache for a key is the response as the upstream returned it
C34_CachedValueUntouched ==
    \A key \in ResponseKeys :
        held[key].present => held[key].value = UpstreamResponse(upstreamItems)

(***************************************************************************)
(* Removal against interleaved reads                                       *)
(***************************************************************************)
\* get(key) would find the key: a valid memory item or a live datum
Present == MemoryValid(memItem, now) \/ DatumLive(diskItem, now)

\* C35: once delete(key) has resolved, get(key) finds nothing unless a set
\* was issued after the removal started, also when a get was under way while
\* the key was being removed
C35_RemovedStaysAbsent ==
    \A t \in TaskIds :
        (/\ tasks[t].op = "delete"
         /\ tasks[t].pc = "done"
         /\ \A o \in TaskIds : o > t => tasks[o].op # "set")
            => ~Present

(***************************************************************************)
(* Force-refresh priming on its own                                        *)
(***************************************************************************)
ForceInit ==
    /\ now = StartTime
    /\ InitCache({"sync"})
    /\ InitClient({"final"})
    /\ FuncIdle
    /\ MgrIdle
    /\ PageIdle
    /\ IndexIdle
    /\ ItemIdle
    /\ RatingsIdle
    /\ FlushIdle
    /\ BuildIdle
    /\ DurableIdle
    /\ UrlIdle
    /\ AuthIdle
    /\ FreshIdle
    /\ AliasIdle
    /\ ForceIdle
    /\ TextIdle

ForceNext ==
    \/ \E r \in ForceReqIds, wantsForce \in BOOLEAN : ForceRequestStart(r, wantsForce)
    \/ \E r \in ForceReqIds : ForceCallResolves(r)

ForceSpec == ForceInit /\ [][ForceNext]_vars

\* C36: every wrapped call of a request that asks for a forced refresh is
\* forced by the flag the request primed, no wrapped call of another request
\* is forced by it, and no flag stays set once the wrapped call is issued
C36_ForceStaysWithRequest ==
    /\ ~nextCallForced
    /\ \A r \in ForceReqIds :
          /\ freqs[r].pc # "failed"
          /\ freqs[r].forced = (IF freqs[r].wantsForce THEN freqs[r].issued ELSE 0)

(***************************************************************************)
(* The cache across a failed upstream call                                 *)
(***************************************************************************)
\* the entry a get(key) is served from: value and expiry
EntryServed(mem, disk, key, t) ==
    IF MemoryValid(mem[key], t) THEN mem[key]
    ELSE IF DiskValid(disk[key], t) THEN disk[key]
    ELSE NoItem

\* a step of a wrapped call whose upstream call has failed: the catch block,
\* and the completion of the stale read it starts
FailedCallStep ==
    \E s \in Slots :
        \/ UpstreamThrows(s)
        \/ calls[s].pc = "diskread" /\ calls[s].phase = "stale" /\ DiskReadCompletes(s)

TextInit ==
    /\ now = StartTime
    /\ InitCache({"sync"})
    /\ InitClient({"final"})
    /\ FuncIdle
    /\ MgrIdle
    /\ PageIdle
    /\ IndexIdle
    /\ ItemIdle
    /\ RatingsIdle
    /\ FlushIdle
    /\ BuildIdle
    /\ DurableIdle
    /\ UrlIdle
    /\ AuthIdle
    /\ FreshIdle
    /\ AliasIdle
    /\ ForceIdle
    /\ textCall \in TextCalls

TextNext == ApplyCreateKeyText

TextSpec == TextInit /\ [][TextNext]_vars

\* the names and values of a call that are neither null nor undefined
GivenArgs(bag) == {bag[i] : i \in {j \in DOMAIN bag : IsGiven(bag[j])}}

\* C38: two calls of one cache type whose given parameters differ in a
\* name or a value, nested values included, get different cache keys
C38_KeyInjective ==
    (textCall.done /\ GivenArgs(textCall.bagA) # GivenArgs(textCall.bagB)) =>
        textCall.keyA # textCall.keyB

\* C39: the pagination object of a returned paginated request holds the item
\* count, page count, page size and page of the first response's headers; its
\* page is the first page fetched, with or without auto-fetched pages
C39_PaginationOfFirstPage ==
    (pcall.pc = "done" /\ pcall.outcome = "value") =>
        pcall.pagination = Pagination(FirstPage)

=============================================================================
